---- MODULE Spec2Model ----
(***************************************************************************)
(* A model of the THz raster-scan acquisition program:                     *)
(*   - core/motor_controller.py : MotorController, the per-axis command    *)
(*     protocol (10-byte frames, background listener, response queue);     *)
(*   - core/main_window.py      : ScanThread (the scan orchestrator) and   *)
(*     MainWindow (manual move / homing workers, move_to_position,         *)
(*     acquire_spectrum, save_scan_data).                                  *)
(*                                                                         *)
(* Positions are integers counted in ticks: one motor pulse is             *)
(* TicksPerPulse ticks, one millimetre is pulses_per_mm pulses.            *)
(***************************************************************************)
EXTENDS Integers, Sequences, FiniteSets, TLC

(***************************************************************************)
(* Program constants.                                                      *)
(***************************************************************************)
\* CommandType (motor_controller.py:9-12)
SET_DIRECTION == 68
SET_PULSES == 80
EXECUTE_MOVE == 71
\* MotorController.__init__ defaults (motor_controller.py:15-30)
pulses_per_mm == 2000
max_travel == 200
\* the size of a float64 sample, in bytes (main_window.py:957, 982)
float64_bytes == 8

(***************************************************************************)
(* Bounds of the model.                                                    *)
(***************************************************************************)
\* resolution of a position below one pulse
TicksPerPulse == 2
\* frames a device may emit on an axis without a command asking for them
MaxSpurious == 1
\* operations (move_motor / go_home_x / go_home_y calls) one run starts
MaxOps == 1
\* operations (scan moves, manual moves, homings) a concurrent run starts
MaxConcOps == 2
\* largest width and height, in ticks, of the plans of a sweep
MaxExtent == 2
\* largest step, in ticks, of the plans of a sweep
MaxStep == 2
\* most samples of a stored result that is reconstructed
MaxSamples == 2
\* most scans started in a session
MaxScans == 2

Axes == {"X", "Y"}

\* byte 4 of a received frame: the SetDirection and SetPulses opcodes and a
\* byte that is no opcode of CommandType
ByteChoices == {SET_DIRECTION, SET_PULSES, 0}

\* the values of CommandType: CommandType(b) raises ValueError outside it
CommandCodes == {SET_DIRECTION, SET_PULSES, EXECUTE_MOVE}

\* directions the callers of move_motor pass in the model: 1, 0 and a value
\* that is neither
DirectionChoices == {0, 1, 2}

\* pulse counts the callers of move_motor pass in the model
PulseChoices == {3}

\* targets, in ticks, typed into Move To X / Move To Y
ManualTargets == {6}

\* path points (x, y), in ticks, the scan thread moves to
ScanTargets == {<<6, 4>>, <<7, 0>>}

\* the scan fields a run starts with, lengths in ticks; widths and heights
\* are even, so that centre - extent / 2 is a whole number of ticks
SquarePlan ==
    [center_x |-> 5, center_y |-> 5, width |-> 2, height |-> 2,
     step_x |-> 2, step_y |-> 2, t_min |-> 1, t_max |-> 2]

LinePlan ==
    [center_x |-> 4, center_y |-> 0, width |-> 4, height |-> 0,
     step_x |-> 2, step_y |-> 2, t_min |-> 5, t_max |-> 6]

Plans == {SquarePlan, LinePlan}

\* the time axis the instrument returns for GETTIMEAXIS
TimeAxisChoices == {<<0, 1, 2, 3>>}

\* the waveforms the instrument returns for GETLATESTPULSE: one as long as
\* the time axis, and one cut short (any multiple of 8 bytes is taken)
WaveformChoices == {<<1, 4, 2, 3>>, <<3, -2>>}

\* home_pulses = int(self.max_travel * self.pulses_per_mm)
home_pulses == max_travel * pulses_per_mm

(***************************************************************************)
(* State.                                                                  *)
(***************************************************************************)
VARIABLES
    connected,          \* [axis] MotorController.connected
    current_position,   \* [axis] MotorController.current_position, in ticks
    ser_in,             \* [axis] frames waiting in the serial input buffer
    held,               \* [axis] frame the listener has read and not yet queued
    response_queue,     \* [axis] MotorController.response_queue
    pending,            \* [axis] commands written that the device has not answered
    spurious,           \* [axis] unsolicited frames the device may still emit
    hardware,           \* [axis] where the stage is: <<ticks>>, or <<>> once a
                        \* command was left without acknowledgment
    th,                 \* [thread] position and locals of each caller thread
    scan_lock,          \* MainWindow.scan_lock: its holder, or "free"
    opsLeft,            \* operations that may still be started
    scanning,           \* MainWindow.scanning
    time_axis,          \* MainWindow.time_axis: <<>> for None, else <<the axis>>
    plan,               \* the scan fields of the window (centre, extent, step, gate)
    stopped,            \* ScanThread.stopped
    run,                \* ScanThread.run: its place and its locals
    scan_data,          \* MainWindow.scan_data
    notes,              \* the signals the scan thread has emitted, in order
    save_result,        \* what save_scan_data returned to scan_complete
    images,             \* the grids reconstruct_images has shown: <<>> or <<grids>>
    start_warning,      \* the last refusal start_scan has shown, "" if none
    rec_images,         \* what reconstruct_from_hdf5 returned: <<>> or <<grids>>
    link,               \* [axis] running, ser, response_thread and the live listeners
    gui,                \* the connect / disconnect call the control thread is in
    acq,                \* the last get_time_axis / acquire_spectrum call and its result
    threads,            \* the ScanThread objects start_scan has started, in order
    paused              \* ScanThread.paused

axisVars == <<connected, current_position, ser_in, held, response_queue,
              pending, spurious, hardware>>
scanVars == <<scanning, time_axis, plan, stopped, run, scan_data, notes,
              save_result, images, start_warning, rec_images>>
linkVars == <<link, gui>>
callVars == <<acq, threads, paused>>
vars == <<connected, current_position, ser_in, held, response_queue,
          pending, spurious, hardware, th, scan_lock, opsLeft,
          scanning, time_axis, plan, stopped, run, scan_data, notes,
          save_result, images, start_warning, rec_images,
          link, gui, acq, threads, paused>>

(***************************************************************************)
(* Frames.  A frame read by the listener is always 10 bytes long           *)
(* (ser.read(10) once in_waiting >= 10), so only byte 4 is kept.  The two  *)
(* flags are history: stale = the device emitted the frame before the      *)
(* latest command was written on its axis; pre = the frame was in          *)
(* response_queue when the current send_command_and_wait began.            *)
(***************************************************************************)
NewFrame(b4) == [b4 |-> b4, stale |-> FALSE, pre |-> FALSE]

MarkStale(q) == [i \in 1..Len(q) |-> [q[i] EXCEPT !.stale = TRUE]]

MarkPre(q) == [i \in 1..Len(q) |-> [q[i] EXCEPT !.pre = TRUE]]

(***************************************************************************)
(* wait_for_response's test of one frame taken from the queue              *)
(* (motor_controller.py:94-106).                                           *)
(***************************************************************************)
\* as Accepts, with every frame taken as the response of every command
Accepts_AnyFrame(cmd_type, b4) == TRUE

\* as Accepts, with ExecuteMove matched on byte 4 like the other commands
Accepts_Correlated(cmd_type, b4) ==
    /\ b4 \in CommandCodes
    /\ b4 = cmd_type

Accepts(cmd_type, b4) ==
    \/ cmd_type = EXECUTE_MOVE
    \/ /\ b4 \in CommandCodes
       /\ b4 = cmd_type

(***************************************************************************)
(* move_motor's sequencing (motor_controller.py:160-170): what follows     *)
(* the command cmd_type once send_command_and_wait returned ok.            *)
(*   "pulses" / "exec" = send that command next; "fail" = return False;    *)
(*   "moved" = update current_position and return True.                    *)
(***************************************************************************)
\* as AfterCommand, going on to the next command after a failed one
AfterCommand_NoShortCircuit(cmd_type, ok) ==
    IF cmd_type = SET_DIRECTION THEN "pulses"
    ELSE IF cmd_type = SET_PULSES THEN "exec"
    ELSE IF ok THEN "moved" ELSE "fail"

AfterCommand(cmd_type, ok) ==
    IF ~ok THEN "fail"
    ELSE IF cmd_type = SET_DIRECTION THEN "pulses"
    ELSE IF cmd_type = SET_PULSES THEN "exec"
    ELSE "moved"

\* as MovedPosition, with the direction not looked at
MovedPosition_Forward(pos, direction, pulse_count) ==
    pos + pulse_count * TicksPerPulse

\* move_motor's position update (motor_controller.py:172-175)
MovedPosition(pos, direction, pulse_count) ==
    IF direction = 1
    THEN pos - pulse_count * TicksPerPulse
    ELSE pos + pulse_count * TicksPerPulse

(***************************************************************************)
(* Caller threads.  pc is the place of the thread in the code:             *)
(*   "idle"       no operation started yet                                 *)
(*   "home_entry" at the top of go_home_x / go_home_y                      *)
(*   "mm_entry"   at the top of move_motor                                 *)
(*   "sc_entry"   at the top of send_command_and_wait (connected test and  *)
(*                reset_input_buffer)                                      *)
(*   "sc_drain"   before the loop that empties response_queue              *)
(*   "sc_write"   before ser.write(command)                                *)
(*   "sc_wait"    in wait_for_response                                     *)
(*   "mm_ret"     move_motor has returned th[t].ok to its caller           *)
(*   "done"       the operation has returned th[t].ok                      *)
(* Fields sent, acks, timedOut, pos0, took and flushed are history of the   *)
(* running call, kept for the properties below:                            *)
(*   sent     the opcodes written by the running move_motor call           *)
(*   acks     the responses that call has accepted                         *)
(*   timedOut a wait_for_response of the operation has timed out           *)
(*   pos0     current_position when the operation was called               *)
(*   took     the last frame wait_for_response took for the current        *)
(*            command, and whether it ended the wait                       *)
(*   flushed  the drain of the current command removed a frame whose       *)
(*            byte 4 is the command's opcode                               *)
(*   wrote    the operation has written a command to a link                *)
(* Fields tx, ty, dir_y, pulses_y, leg, x_ok and y_ok are the locals of    *)
(* move_to_position (x, y, direction_y, pulse_count_y, the leg under way,  *)
(* x_success, y_success).                                                  *)
(***************************************************************************)
IdleThread ==
    [pc |-> "idle", op |-> "none", axis |-> "X", dir |-> 0, pulses |-> 0,
     cmd |-> 0, phase |-> 0, ok |-> FALSE,
     sent |-> <<>>, acks |-> 0, timedOut |-> FALSE, pos0 |-> 0, took |-> <<>>,
     flushed |-> FALSE,
     tx |-> 0, ty |-> 0, dir_y |-> 0, pulses_y |-> 0, leg |-> "none",
     x_ok |-> TRUE, y_ok |-> TRUE, wrote |-> FALSE]

\* the thread record once its operation has returned ok: the locals are gone,
\* the result and the history of the whole operation stay
Finished(r, ok) ==
    [IdleThread EXCEPT !.pc = "done", !.op = r.op, !.axis = r.axis, !.ok = ok,
                       !.timedOut = r.timedOut, !.pos0 = r.pos0, !.wrote = r.wrote]

\* the thread record after send_command_and_wait returned ok for r.cmd
AfterRecord(r, ok) ==
    LET nxt == AfterCommand(r.cmd, ok) IN
    IF nxt = "fail" THEN [r EXCEPT !.pc = "mm_ret", !.ok = FALSE]
    ELSE IF nxt = "pulses" THEN [r EXCEPT !.pc = "sc_entry", !.cmd = SET_PULSES]
    ELSE IF nxt = "exec" THEN [r EXCEPT !.pc = "sc_entry", !.cmd = EXECUTE_MOVE]
    ELSE [r EXCEPT !.pc = "mm_ret", !.ok = TRUE]

\* current_position of r.axis after send_command_and_wait returned ok for r.cmd
AfterPosition(r, ok, pos) ==
    IF AfterCommand(r.cmd, ok) = "moved"
    THEN MovedPosition(pos, r.dir, r.pulses)
    ELSE pos

\* where the stage is after send_command_and_wait returned ok for r.cmd: an
\* acknowledged ExecuteMove has moved it by r.pulses in direction r.dir, a
\* command left without acknowledgment leaves it unknown
AfterHardware(r, ok, hw) ==
    IF ~ok \/ hw = <<>> THEN <<>>
    ELSE IF AfterCommand(r.cmd, ok) = "moved"
         THEN <<MovedPosition(hw[1], r.dir, r.pulses)>>
         ELSE hw

\* move_motor, lines 156-160: the connected test, then set_direction
MoveMotorEntry(t) ==
    /\ th[t].pc = "mm_entry"
    /\ th' = [th EXCEPT ![t] =
                IF connected[th[t].axis]
                THEN [@ EXCEPT !.pc = "sc_entry", !.cmd = SET_DIRECTION,
                               !.sent = <<>>, !.acks = 0, !.took = <<>>,
                               !.flushed = FALSE]
                ELSE [@ EXCEPT !.pc = "mm_ret", !.ok = FALSE,
                               !.sent = <<>>, !.acks = 0, !.took = <<>>,
                               !.flushed = FALSE]]
    /\ UNCHANGED <<axisVars, scan_lock, opsLeft>>

\* send_command_and_wait, lines 116-120
SendEntry(t) ==
    LET a == th[t].axis IN
    /\ th[t].pc = "sc_entry"
    /\ IF connected[a]
       THEN /\ ser_in' = [ser_in EXCEPT ![a] = <<>>]
            /\ response_queue' = [response_queue EXCEPT ![a] = MarkPre(@)]
            /\ th' = [th EXCEPT ![t].pc = "sc_drain", ![t].took = <<>>,
                                 ![t].flushed = FALSE]
            /\ UNCHANGED current_position
       ELSE /\ th' = [th EXCEPT ![t] = AfterRecord([@ EXCEPT !.took = <<>>], FALSE)]
            /\ current_position' = [current_position EXCEPT ![a] =
                                      AfterPosition(th[t], FALSE, @)]
            /\ UNCHANGED <<ser_in, response_queue>>
    /\ UNCHANGED <<connected, held, pending, spurious, hardware, scan_lock, opsLeft>>

\* as Drained, with the queue left as it was
Drained_Nothing(q) == q

\* what the loop of lines 122-126 leaves of the queue
Drained(q) == <<>>

\* send_command_and_wait, lines 122-126
SendDrain(t) ==
    LET a == th[t].axis IN
    /\ th[t].pc = "sc_drain"
    /\ response_queue' = [response_queue EXCEPT ![a] = Drained(@)]
    /\ th' = [th EXCEPT ![t].pc = "sc_write",
                         ![t].flushed =
                            /\ Len(Drained(response_queue[a])) < Len(response_queue[a])
                            /\ \E i \in 1..Len(response_queue[a]) :
                                  response_queue[a][i].b4 = th[t].cmd]
    /\ UNCHANGED <<connected, current_position, ser_in, held, pending, spurious, hardware,
                   scan_lock, opsLeft>>

\* send_command_and_wait, lines 128-135: the command goes out on the link
SendWrite(t) ==
    LET a == th[t].axis IN
    /\ th[t].pc = "sc_write"
    /\ pending' = [pending EXCEPT ![a] = @ + 1]
    /\ ser_in' = [ser_in EXCEPT ![a] = MarkStale(@)]
    /\ held' = [held EXCEPT ![a] = MarkStale(@)]
    /\ response_queue' = [response_queue EXCEPT ![a] = MarkStale(@)]
    /\ th' = [th EXCEPT ![t].pc = "sc_wait", ![t].sent = Append(@, th[t].cmd),
                         ![t].wrote = TRUE]
    /\ UNCHANGED <<connected, current_position, spurious, hardware, scan_lock, opsLeft>>

\* wait_for_response, lines 91-106: one frame is taken from the queue
WaitTake(t) ==
    LET a == th[t].axis
        f == Head(response_queue[a])
        hit == Accepts(th[t].cmd, f.b4)
        r == [th[t] EXCEPT !.took = <<[b4 |-> f.b4, stale |-> f.stale, pre |-> f.pre,
                                       cmd |-> th[t].cmd, ended |-> hit]>>,
                           !.acks = IF hit THEN @ + 1 ELSE @]
    IN
    /\ th[t].pc = "sc_wait"
    /\ response_queue[a] # <<>>
    /\ response_queue' = [response_queue EXCEPT ![a] = Tail(@)]
    /\ IF hit
       THEN /\ th' = [th EXCEPT ![t] = AfterRecord(r, TRUE)]
            /\ current_position' = [current_position EXCEPT ![a] =
                                      AfterPosition(r, TRUE, @)]
            /\ hardware' = [hardware EXCEPT ![a] = AfterHardware(r, TRUE, @)]
       ELSE /\ th' = [th EXCEPT ![t] = r]
            /\ UNCHANGED <<current_position, hardware>>
    /\ UNCHANGED <<connected, ser_in, held, pending, spurious, scan_lock, opsLeft>>

\* as WaitTimeout, with a wait on an empty queue that goes on for ever
WaitTimeout_Never(t) ==
    /\ th[t].pc = "sc_wait"
    /\ response_queue[th[t].axis] = <<>>
    /\ UNCHANGED <<axisVars, th, scan_lock, opsLeft>>

\* wait_for_response, lines 89 and 112-113: the queue is empty and the
\* timeout has elapsed
WaitTimeout(t) ==
    LET a == th[t].axis
        r == [th[t] EXCEPT !.timedOut = TRUE]
    IN
    /\ th[t].pc = "sc_wait"
    /\ response_queue[a] = <<>>
    /\ th' = [th EXCEPT ![t] = AfterRecord(r, FALSE)]
    /\ current_position' = [current_position EXCEPT ![a] = AfterPosition(r, FALSE, @)]
    /\ hardware' = [hardware EXCEPT ![a] = AfterHardware(r, FALSE, @)]
    /\ UNCHANGED <<connected, ser_in, held, response_queue, pending, spurious,
                   scan_lock, opsLeft>>

(***************************************************************************)
(* The device and the background listener of one axis.                     *)
(***************************************************************************)
\* the device answers a command it has received, with any byte 4
DeviceRespond(a) ==
    /\ connected[a]
    /\ pending[a] > 0
    /\ \E b4 \in ByteChoices :
          ser_in' = [ser_in EXCEPT ![a] = Append(@, NewFrame(b4))]
    /\ pending' = [pending EXCEPT ![a] = @ - 1]
    /\ UNCHANGED <<connected, current_position, held, response_queue, spurious, hardware,
                   th, scan_lock, opsLeft>>

\* the device answers a command while its caller is waiting, with the
\* command's opcode in byte 4: a device that answers well or not at all
DeviceEcho(a) ==
    /\ connected[a]
    /\ pending[a] > 0
    /\ \E t \in DOMAIN th :
          /\ th[t].pc = "sc_wait"
          /\ th[t].axis = a
          /\ ser_in' = [ser_in EXCEPT ![a] = Append(@, NewFrame(th[t].cmd))]
    /\ pending' = [pending EXCEPT ![a] = @ - 1]
    /\ UNCHANGED <<connected, current_position, held, response_queue, spurious, hardware,
                   th, scan_lock, opsLeft>>

\* the device leaves a command without an answer for good
DeviceSilent(a) ==
    /\ connected[a]
    /\ pending[a] > 0
    /\ pending' = [pending EXCEPT ![a] = @ - 1]
    /\ UNCHANGED <<connected, current_position, ser_in, held, response_queue,
                   spurious, hardware, th, scan_lock, opsLeft>>

\* no answer is on its way on axis a: none owed by the device, none in the
\* serial buffer, none in the listener's hands
NoAnswerComing(a) == pending[a] = 0 /\ ser_in[a] = <<>> /\ held[a] = <<>>

\* the device emits a frame nobody asked for
DeviceSpurious(a) ==
    /\ connected[a]
    /\ spurious[a] > 0
    /\ \E b4 \in ByteChoices :
          ser_in' = [ser_in EXCEPT ![a] = Append(@, NewFrame(b4))]
    /\ spurious' = [spurious EXCEPT ![a] = @ - 1]
    /\ UNCHANGED <<connected, current_position, held, response_queue, pending,
                   hardware, th, scan_lock, opsLeft>>

\* the loop test of monitor_responses (line 74)
Monitoring(l) == l.running /\ l.ser = "open"

\* monitor_responses, lines 74-77: response = self.ser.read(10)
ListenerRead(a) ==
    /\ link[a].alive > 0
    /\ Monitoring(link[a])
    /\ held[a] = <<>>
    /\ ser_in[a] # <<>>
    /\ held' = [held EXCEPT ![a] = <<Head(ser_in[a])>>]
    /\ ser_in' = [ser_in EXCEPT ![a] = Tail(@)]
    /\ UNCHANGED <<connected, current_position, response_queue, pending, spurious, hardware,
                   th, scan_lock, opsLeft>>

\* monitor_responses, line 78: self.response_queue.put(response)
ListenerPut(a) ==
    /\ held[a] # <<>>
    /\ response_queue' = [response_queue EXCEPT ![a] = @ \o held[a]]
    /\ held' = [held EXCEPT ![a] = <<>>]
    /\ UNCHANGED <<connected, current_position, ser_in, pending, spurious, hardware,
                   th, scan_lock, opsLeft>>

(***************************************************************************)
(* The window and the scan thread before any scan is started               *)
(* (MainWindow.__init__, lines 238-247).                                   *)
(***************************************************************************)
EmptyScanData ==
    [positions |-> <<>>, spectra |-> <<>>, max_values |-> <<>>, min_values |-> <<>>]

\* failed_moves and failed_acquisitions count what the run has met so far;
\* stop_at is where the run was, and how many samples it had, when stop()
\* was called
NoRun ==
    [pc |-> "none", k |-> 0, current_point |-> 0, collected_points |-> 0,
     failed_moves |-> 0, failed_acquisitions |-> 0,
     stop_at |-> [pc |-> "none", k |-> 0, samples |-> 0]]

ScanIdle ==
    /\ scanning = FALSE
    /\ time_axis = <<>>
    /\ stopped = FALSE
    /\ run = NoRun
    /\ scan_data = EmptyScanData
    /\ notes = <<>>
    /\ save_result = "none"
    /\ images = <<>>
    /\ start_warning = ""
    /\ rec_images = <<>>

(***************************************************************************)
(* The fields of a controller behind its connection                        *)
(* (MotorController.__init__, lines 19-27):                                 *)
(*   running          MotorController.running                              *)
(*   ser              "none" for None, "open" for an open serial.Serial    *)
(*   response_thread  "none" for None, "thread" for a Thread object        *)
(*   alive            the listener threads (monitor_responses) that have   *)
(*                    been started and have not returned                   *)
(* Fields ever and discs are history: the axis has been connected once;    *)
(* the disconnect() calls that returned since the last connect() call, up  *)
(* to two.                                                                 *)
(***************************************************************************)
NewLink ==
    [running |-> FALSE, ser |-> "none", response_thread |-> "none", alive |-> 0,
     ever |-> FALSE, discs |-> 0]

\* the fields after a connect() that succeeded on a new controller
ConnectedLink ==
    [NewLink EXCEPT !.running = TRUE, !.ser = "open", !.response_thread = "thread",
                    !.alive = 1, !.ever = TRUE]

\* the control thread is in no connect() or disconnect() call
NoCall == [pc |-> "idle", axis |-> "X", before |-> <<>>]

\* no get_time_axis or acquire_spectrum call has been made
NoAcquisition ==
    [fn |-> "none", connects |-> FALSE, arrives |-> FALSE, data |-> <<>>,
     ok |-> FALSE, value |-> <<>>, axis_before |-> <<>>]

\* the controllers as their connected flags say, no call under way, no scan
\* thread started
LinkIdle ==
    /\ link = [a \in Axes |-> IF connected[a] THEN ConnectedLink ELSE NewLink]
    /\ gui = NoCall
    /\ acq = NoAcquisition
    /\ threads = <<>>
    /\ paused = FALSE

(***************************************************************************)
(* Operations on one controller, called one after the other by a single    *)
(* thread: move_motor, go_home_x (on the X controller) and go_home_y (on   *)
(* the Y controller).                                                      *)
(***************************************************************************)
CanStart(t) ==
    /\ th[t].pc \in {"idle", "done"}
    /\ opsLeft > 0

\* a call of move_motor(direction, pulse_count)
CallMoveMotor(t, a, direction, pulse_count) ==
    /\ CanStart(t)
    /\ th' = [th EXCEPT ![t] =
                [IdleThread EXCEPT !.pc = "mm_entry", !.op = "move", !.axis = a,
                                   !.dir = direction, !.pulses = pulse_count,
                                   !.pos0 = current_position[a]]]
    /\ opsLeft' = opsLeft - 1
    /\ UNCHANGED <<axisVars, scan_lock>>

\* a call of go_home_x() (main_window.py:706-707)
CallGoHomeX(t) ==
    /\ CanStart(t)
    /\ th' = [th EXCEPT ![t] =
                [IdleThread EXCEPT !.pc = "home_entry", !.op = "home_x", !.axis = "X",
                                   !.pos0 = current_position["X"]]]
    /\ opsLeft' = opsLeft - 1
    /\ UNCHANGED <<axisVars, scan_lock>>

\* a call of go_home_y() (main_window.py:713-714)
CallGoHomeY(t) ==
    /\ CanStart(t)
    /\ th' = [th EXCEPT ![t] =
                [IdleThread EXCEPT !.pc = "home_entry", !.op = "home_y", !.axis = "Y",
                                   !.pos0 = current_position["Y"]]]
    /\ opsLeft' = opsLeft - 1
    /\ UNCHANGED <<axisVars, scan_lock>>

\* as HomeDirection, with go_home_x homing in direction 0
HomeDirection_Zero(op) == 0

\* home_direction of go_home_x (line 185) and go_home_y (line 200)
HomeDirection(op) == IF op = "home_x" THEN 1 ELSE 0

\* as HomeEntry, with success returned on a controller that is not connected
HomeEntry_Succeeds(t) ==
    /\ th[t].pc = "home_entry"
    /\ th' = [th EXCEPT ![t] =
                IF connected[th[t].axis]
                THEN [@ EXCEPT !.pc = "mm_entry", !.dir = HomeDirection(th[t].op),
                               !.pulses = home_pulses, !.phase = 1]
                ELSE Finished(@, TRUE)]
    /\ UNCHANGED <<axisVars, scan_lock, opsLeft>>

\* go_home_x lines 181-189, go_home_y lines 196-204: the connected test,
\* then the first move_motor call
HomeEntry(t) ==
    /\ th[t].pc = "home_entry"
    /\ th' = [th EXCEPT ![t] =
                IF connected[th[t].axis]
                THEN [@ EXCEPT !.pc = "mm_entry", !.dir = HomeDirection(th[t].op),
                               !.pulses = home_pulses, !.phase = 1]
                ELSE Finished(@, FALSE)]
    /\ UNCHANGED <<axisVars, scan_lock, opsLeft>>

\* _move_x_motor_worker / _move_y_motor_worker: move_motor has returned
MoveReturn(t) ==
    /\ th[t].pc = "mm_ret"
    /\ th[t].op = "move"
    /\ th' = [th EXCEPT ![t] = Finished(@, th[t].ok)]
    /\ UNCHANGED <<axisVars, scan_lock, opsLeft>>

\* go_home_x, lines 189-193
HomeXReturn(t) ==
    LET a == th[t].axis IN
    /\ th[t].pc = "mm_ret"
    /\ th[t].op = "home_x"
    /\ th' = [th EXCEPT ![t] = Finished(@, th[t].ok)]
    /\ current_position' = [current_position EXCEPT ![a] = IF th[t].ok THEN 0 ELSE @]
    /\ hardware' = [hardware EXCEPT ![a] = IF th[t].ok THEN <<0>> ELSE @]
    /\ UNCHANGED <<connected, ser_in, held, response_queue, pending, spurious,
                   scan_lock, opsLeft>>

\* go_home_y, lines 204-205 and 209: the first move has returned
HomeYFirstReturn(t) ==
    /\ th[t].pc = "mm_ret"
    /\ th[t].op = "home_y"
    /\ th[t].phase = 1
    /\ th' = [th EXCEPT ![t] =
                IF th[t].ok
                THEN [@ EXCEPT !.pc = "mm_entry", !.dir = 1, !.pulses = home_pulses,
                               !.phase = 2]
                ELSE Finished(@, FALSE)]
    /\ UNCHANGED <<axisVars, scan_lock, opsLeft>>

\* what go_home_y does with the result of its second move_motor call
\* (line 205): the result is not looked at
HomeYZeroes(second_ok) == TRUE

\* go_home_y, lines 205-208: the second move has returned
HomeYSecondReturn(t) ==
    LET a == th[t].axis IN
    /\ th[t].pc = "mm_ret"
    /\ th[t].op = "home_y"
    /\ th[t].phase = 2
    /\ th' = [th EXCEPT ![t] = Finished(@, HomeYZeroes(th[t].ok))]
    /\ current_position' = [current_position EXCEPT ![a] =
                              IF HomeYZeroes(th[t].ok) THEN 0 ELSE @]
    /\ hardware' = [hardware EXCEPT ![a] = IF th[t].ok THEN <<0>> ELSE @]
    /\ UNCHANGED <<connected, ser_in, held, response_queue, pending, spurious,
                   scan_lock, opsLeft>>

\* the steps of a running operation that are the same for every caller
ProtocolStep(t) ==
    \/ MoveMotorEntry(t)
    \/ SendEntry(t)
    \/ SendDrain(t)
    \/ SendWrite(t)
    \/ WaitTake(t)
    \/ WaitTimeout(t)

HomeStep(t) ==
    \/ HomeEntry(t)
    \/ HomeXReturn(t)
    \/ HomeYFirstReturn(t)
    \/ HomeYSecondReturn(t)

LinkStep(a) ==
    \/ DeviceRespond(a)
    \/ DeviceSpurious(a)
    \/ ListenerRead(a)
    \/ ListenerPut(a)

(***************************************************************************)
(* SpecAxis: one caller thread working on one controller at a time, with   *)
(* the device and the listener of that controller; at most one of the two  *)
(* controllers is connected in a run.  A controller that is not connected  *)
(* may have been connected before: disconnect leaves in response_queue     *)
(* what the listener had put there (the runs with no controller connected  *)
(* start with or without such a frame).                                    *)
(***************************************************************************)
\* what response_queue holds on a controller that is not connected: nothing,
\* or a frame queued before disconnect (motor_controller.py:50-55)
LeftoverQueues == {<<>>, <<NewFrame(SET_DIRECTION)>>}

InitAxis ==
    /\ connected \in {c \in [Axes -> BOOLEAN] : ~(c["X"] /\ c["Y"])}
    /\ current_position = [a \in Axes |-> 0]
    /\ ser_in = [a \in Axes |-> <<>>]
    /\ held = [a \in Axes |-> <<>>]
    /\ response_queue \in {q \in [Axes -> LeftoverQueues] :
                             (\E a \in Axes : connected[a])
                                 => \A a \in Axes : q[a] = <<>>}
    /\ pending = [a \in Axes |-> 0]
    /\ spurious = [a \in Axes |-> MaxSpurious]
    /\ hardware = [a \in Axes |-> <<0>>]
    /\ th = [t \in {"worker"} |-> IdleThread]
    /\ scan_lock = "free"
    /\ opsLeft = MaxOps
    /\ plan = SquarePlan
    /\ ScanIdle
    /\ LinkIdle

NextAxis ==
    \/ \E a \in Axes, d \in DirectionChoices, n \in PulseChoices : CallMoveMotor("worker", a, d, n) /\ UNCHANGED <<scanVars, linkVars, callVars>>
    \/ CallGoHomeX("worker") /\ UNCHANGED <<scanVars, linkVars, callVars>>
    \/ CallGoHomeY("worker") /\ UNCHANGED <<scanVars, linkVars, callVars>>
    \/ MoveMotorEntry("worker") /\ UNCHANGED <<scanVars, linkVars, callVars>>
    \/ SendEntry("worker") /\ UNCHANGED <<scanVars, linkVars, callVars>>
    \/ SendDrain("worker") /\ UNCHANGED <<scanVars, linkVars, callVars>>
    \/ SendWrite("worker") /\ UNCHANGED <<scanVars, linkVars, callVars>>
    \/ WaitTake("worker") /\ UNCHANGED <<scanVars, linkVars, callVars>>
    \/ WaitTimeout("worker") /\ UNCHANGED <<scanVars, linkVars, callVars>>
    \/ MoveReturn("worker") /\ UNCHANGED <<scanVars, linkVars, callVars>>
    \/ HomeEntry("worker") /\ UNCHANGED <<scanVars, linkVars, callVars>>
    \/ HomeXReturn("worker") /\ UNCHANGED <<scanVars, linkVars, callVars>>
    \/ HomeYFirstReturn("worker") /\ UNCHANGED <<scanVars, linkVars, callVars>>
    \/ HomeYSecondReturn("worker") /\ UNCHANGED <<scanVars, linkVars, callVars>>
    \/ \E a \in Axes : DeviceRespond(a) /\ UNCHANGED <<scanVars, linkVars, callVars>>
    \/ \E a \in Axes : DeviceSpurious(a) /\ UNCHANGED <<scanVars, linkVars, callVars>>
    \/ \E a \in Axes : ListenerRead(a) /\ UNCHANGED <<scanVars, linkVars, callVars>>
    \/ \E a \in Axes : ListenerPut(a) /\ UNCHANGED <<scanVars, linkVars, callVars>>

SpecAxis == InitAxis /\ [][NextAxis]_vars

(***************************************************************************)
(* The callers of MainWindow: the scan thread's move_to_position, the      *)
(* manual move workers and the homing workers, each on a thread of its own.*)
(***************************************************************************)
Abs(n) == IF n < 0 THEN -n ELSE n

\* direction = 0 if target > current else 1 (lines 672, 693, 908, 913)
DirectionTo(target, current) == IF target > current THEN 0 ELSE 1

\* pulse_count = int(distance * pulses_per_mm) (lines 673, 694, 909, 914):
\* the whole pulses in a distance given in ticks
PulseCount(target, current) == Abs(target - current) \div TicksPerPulse

WorkerOf(a) == IF a = "X" THEN "moveX" ELSE "moveY"

\* moveX_to_position / moveY_to_position (lines 664-704): the click handler
\* reads current_position, computes direction and pulse count and starts a
\* worker thread that calls move_motor
ManualMove(a, target) ==
    LET t == WorkerOf(a) IN
    /\ CanStart(t)
    /\ connected[a]
    /\ PulseCount(target, current_position[a]) # 0
    /\ th' = [th EXCEPT ![t] =
                [IdleThread EXCEPT !.pc = "mm_entry", !.op = "move", !.axis = a,
                                   !.dir = DirectionTo(target, current_position[a]),
                                   !.pulses = PulseCount(target, current_position[a]),
                                   !.tx = target,
                                   !.pos0 = current_position[a]]]
    /\ opsLeft' = opsLeft - 1
    /\ UNCHANGED <<axisVars, scan_lock>>

\* home_x_motor (lines 650-655): starts the homing worker of X
HomeXButton ==
    /\ connected["X"]
    /\ CallGoHomeX("homeX")

\* home_y_motor (lines 657-662): starts the homing worker of Y
HomeYButton ==
    /\ connected["Y"]
    /\ CallGoHomeY("homeY")

\* move_to_position, lines 906-914: both legs are computed from the
\* positions read here, before scan_lock is taken
MoveToPositionEntry(x, y) ==
    [IdleThread EXCEPT !.pc = "mtp_lock", !.op = "scan_move",
                       !.tx = x, !.ty = y,
                       !.dir = DirectionTo(x, current_position["X"]),
                       !.pulses = PulseCount(x, current_position["X"]),
                       !.dir_y = DirectionTo(y, current_position["Y"]),
                       !.pulses_y = PulseCount(y, current_position["Y"])]

\* the scan thread calls move_to_position(x, y) for a path point
MoveToPositionCall(t, x, y) ==
    /\ CanStart(t)
    /\ th' = [th EXCEPT ![t] = MoveToPositionEntry(x, y)]
    /\ opsLeft' = opsLeft - 1
    /\ UNCHANGED <<axisVars, scan_lock>>

\* as StartLegY, with the Y leg left out once the X leg has failed
StartLegY_UnlessXFailed(r) ==
    IF r.pulses_y > 0 /\ r.x_ok
    THEN [r EXCEPT !.pc = "mm_entry", !.axis = "Y", !.leg = "y",
                   !.dir = r.dir_y, !.pulses = r.pulses_y]
    ELSE [r EXCEPT !.pc = "mtp_unlock", !.leg = "none"]

\* the thread record at the start of the Y leg (lines 927-928), or past it
\* when pulse_count_y is 0
StartLegY(r) ==
    IF r.pulses_y > 0
    THEN [r EXCEPT !.pc = "mm_entry", !.axis = "Y", !.leg = "y",
                   !.dir = r.dir_y, !.pulses = r.pulses_y]
    ELSE [r EXCEPT !.pc = "mtp_unlock", !.leg = "none"]

\* move_to_position, lines 916-921: scan_lock is taken and the X leg starts
MoveToPositionLock(t) ==
    /\ th[t].pc = "mtp_lock"
    /\ scan_lock = "free"
    /\ scan_lock' = t
    /\ th' = [th EXCEPT ![t] =
                IF th[t].pulses > 0
                THEN [@ EXCEPT !.pc = "mm_entry", !.axis = "X", !.leg = "x",
                               !.x_ok = TRUE, !.y_ok = TRUE]
                ELSE StartLegY([@ EXCEPT !.x_ok = TRUE, !.y_ok = TRUE])]
    /\ UNCHANGED <<axisVars, opsLeft>>

\* move_to_position, lines 921-925: the X leg's move_motor has returned
LegXReturn(t) ==
    /\ th[t].pc = "mm_ret"
    /\ th[t].op = "scan_move"
    /\ th[t].leg = "x"
    /\ current_position' = [current_position EXCEPT !["X"] =
                              IF th[t].ok THEN th[t].tx ELSE @]
    /\ th' = [th EXCEPT ![t] = StartLegY([@ EXCEPT !.x_ok = th[t].ok])]
    /\ UNCHANGED <<connected, ser_in, held, response_queue, pending, spurious, hardware,
                   scan_lock, opsLeft>>

\* move_to_position, lines 928-932: the Y leg's move_motor has returned
LegYReturn(t) ==
    /\ th[t].pc = "mm_ret"
    /\ th[t].op = "scan_move"
    /\ th[t].leg = "y"
    /\ current_position' = [current_position EXCEPT !["Y"] =
                              IF th[t].ok THEN th[t].ty ELSE @]
    /\ th' = [th EXCEPT ![t].pc = "mtp_unlock", ![t].y_ok = th[t].ok,
                         ![t].leg = "none"]
    /\ UNCHANGED <<connected, ser_in, held, response_queue, pending, spurious, hardware,
                   scan_lock, opsLeft>>

\* move_to_position, lines 934-939: the with block ends, the result is
\* x_success and y_success
MoveToPositionReturn(t) ==
    /\ th[t].pc = "mtp_unlock"
    /\ scan_lock' = "free"
    /\ th' = [th EXCEPT ![t] = Finished(@, th[t].x_ok /\ th[t].y_ok)]
    /\ UNCHANGED <<axisVars, opsLeft>>

ConcThreads == {"scan", "moveX", "moveY", "homeX", "homeY"}

(***************************************************************************)
(* SpecConc: the scan thread, the two manual move workers and the two      *)
(* homing workers run side by side on both controllers.  The devices are   *)
(* restricted here: they emit no unsolicited frame and answer a command    *)
(* with its own opcode while its caller is waiting, or not at all          *)
(* (SpecAxis has the unrestricted device), so SpecConc shows behaviours of *)
(* the program but not all of them.                                        *)
(***************************************************************************)
InitConc ==
    /\ connected = [a \in Axes |-> TRUE]
    /\ current_position = [a \in Axes |-> 0]
    /\ ser_in = [a \in Axes |-> <<>>]
    /\ held = [a \in Axes |-> <<>>]
    /\ response_queue = [a \in Axes |-> <<>>]
    /\ pending = [a \in Axes |-> 0]
    /\ spurious = [a \in Axes |-> 0]
    /\ hardware = [a \in Axes |-> <<0>>]
    /\ th = [t \in ConcThreads |-> IdleThread]
    /\ scan_lock = "free"
    /\ opsLeft = MaxConcOps
    /\ plan = SquarePlan
    /\ ScanIdle
    /\ LinkIdle

NextConc ==
    \/ \E p \in ScanTargets : MoveToPositionCall("scan", p[1], p[2]) /\ UNCHANGED <<scanVars, linkVars, callVars>>
    \/ MoveToPositionLock("scan") /\ UNCHANGED <<scanVars, linkVars, callVars>>
    \/ LegXReturn("scan") /\ UNCHANGED <<scanVars, linkVars, callVars>>
    \/ LegYReturn("scan") /\ UNCHANGED <<scanVars, linkVars, callVars>>
    \/ MoveToPositionReturn("scan") /\ UNCHANGED <<scanVars, linkVars, callVars>>
    \/ \E a \in Axes, target \in ManualTargets : ManualMove(a, target) /\ UNCHANGED <<scanVars, linkVars, callVars>>
    \/ HomeXButton /\ UNCHANGED <<scanVars, linkVars, callVars>>
    \/ HomeYButton /\ UNCHANGED <<scanVars, linkVars, callVars>>
    \/ \E t \in ConcThreads : MoveMotorEntry(t) /\ UNCHANGED <<scanVars, linkVars, callVars>>
    \/ \E t \in ConcThreads : SendEntry(t) /\ UNCHANGED <<scanVars, linkVars, callVars>>
    \/ \E t \in ConcThreads : SendDrain(t) /\ UNCHANGED <<scanVars, linkVars, callVars>>
    \/ \E t \in ConcThreads : SendWrite(t) /\ UNCHANGED <<scanVars, linkVars, callVars>>
    \/ \E t \in ConcThreads : WaitTake(t) /\ UNCHANGED <<scanVars, linkVars, callVars>>
    \/ \E t \in ConcThreads : WaitTimeout(t) /\ UNCHANGED <<scanVars, linkVars, callVars>>
    \/ \E t \in ConcThreads : MoveReturn(t) /\ UNCHANGED <<scanVars, linkVars, callVars>>
    \/ \E t \in ConcThreads : HomeEntry(t) /\ UNCHANGED <<scanVars, linkVars, callVars>>
    \/ \E t \in ConcThreads : HomeXReturn(t) /\ UNCHANGED <<scanVars, linkVars, callVars>>
    \/ \E t \in ConcThreads : HomeYFirstReturn(t) /\ UNCHANGED <<scanVars, linkVars, callVars>>
    \/ \E t \in ConcThreads : HomeYSecondReturn(t) /\ UNCHANGED <<scanVars, linkVars, callVars>>
    \/ \E a \in Axes : DeviceEcho(a) /\ UNCHANGED <<scanVars, linkVars, callVars>>
    \/ \E a \in Axes : ListenerRead(a) /\ UNCHANGED <<scanVars, linkVars, callVars>>
    \/ \E a \in Axes : ListenerPut(a) /\ UNCHANGED <<scanVars, linkVars, callVars>>

SpecConc == InitConc /\ [][NextConc]_vars

(***************************************************************************)
(* Properties of the command protocol, checked under SpecAxis.             *)
(***************************************************************************)
IsPrefix(s, t) ==
    /\ Len(s) <= Len(t)
    /\ \A i \in 1..Len(s) : s[i] = t[i]

MoveSequence == <<SET_DIRECTION, SET_PULSES, EXECUTE_MOVE>>

\* C1: a move_motor call writes SetDirection, SetPulses, ExecuteMove in this
\* order, each one only after the response of the one before was accepted
\* (never more than one command beyond the accepted responses), and once a
\* wait has timed out the call has returned failure and has written nothing
\* after the command that timed out.
C1_MoveMotorOrder ==
    \A t \in DOMAIN th :
        LET r == th[t] IN
        /\ IsPrefix(r.sent, MoveSequence)
        /\ r.acks <= Len(r.sent)
        /\ Len(r.sent) <= r.acks + 1
        /\ r.timedOut => r.pc \in {"mm_ret", "done"}
        /\ (r.pc = "mm_ret" /\ r.timedOut) => (~r.ok /\ Len(r.sent) = r.acks + 1)
        /\ (r.pc = "mm_ret" /\ r.ok) => (r.sent = MoveSequence /\ r.acks = 3)

\* a move_motor call whose SetPulses timed out has returned failure with
\* ExecuteMove never written
C1_Witness ==
    /\ th["worker"].pc = "mm_ret"
    /\ th["worker"].timedOut
    /\ ~th["worker"].ok
    /\ th["worker"].sent = <<SET_DIRECTION, SET_PULSES>>

\* C2: current_position of an axis changes only in a step of a caller whose
\* latest move_motor call on that axis has had all three commands
\* acknowledged.
C2_PositionOnlyAfterAck ==
    [][\A a \in Axes :
          current_position'[a] # current_position[a]
          => \E t \in DOMAIN th :
                /\ th[t].axis = a
                /\ th[t].acks = 3 \/ th'[t].acks = 3]_vars

\* C6: for SetDirection and SetPulses a frame taken from the queue ends the
\* wait exactly when its byte 4 is the opcode waited for; a frame that did not
\* end the wait leaves the caller waiting for the same command, or the wait
\* has timed out since, and a wait that timed out makes move_motor fail.
C6_CorrelatedResponse ==
    \A t \in DOMAIN th :
        LET r == th[t] IN
        /\ (r.took # <<>> /\ r.took[1].cmd \in {SET_DIRECTION, SET_PULSES})
           => (r.took[1].ended <=> r.took[1].b4 = r.took[1].cmd)
        /\ (r.took # <<>> /\ ~r.took[1].ended)
           => \/ r.pc = "sc_wait" /\ r.cmd = r.took[1].cmd
              \/ r.timedOut
        /\ (r.took # <<>> /\ r.took[1].ended) => r.acks >= 1
        /\ (r.pc = "mm_ret" /\ r.timedOut) => ~r.ok

\* a frame with another byte 4 was taken while waiting for SetPulses and the
\* caller is still waiting
C6_Witness ==
    /\ th["worker"].pc = "sc_wait"
    /\ th["worker"].cmd = SET_PULSES
    /\ th["worker"].took # <<>>
    /\ th["worker"].took[1].b4 = SET_DIRECTION
    /\ ~th["worker"].took[1].ended

\* C7: a frame that was in response_queue when send_command_and_wait began is
\* never the frame that ends the wait for that command.
C7_StaleQueueFlushed ==
    \A t \in DOMAIN th :
        (th[t].took # <<>> /\ th[t].took[1].ended) => ~th[t].took[1].pre

\* a queued frame carrying the SetDirection opcode was flushed before
\* SetDirection was written, and a later frame ended the wait
C7_Witness ==
    /\ th["worker"].flushed
    /\ th["worker"].cmd = SET_PULSES
    /\ th["worker"].pc = "sc_entry"
    /\ th["worker"].took # <<>>
    /\ th["worker"].took[1].cmd = SET_DIRECTION
    /\ th["worker"].took[1].ended

\* C23: the step in which a move_motor(direction, pulses) call succeeds
\* moves current_position of its axis by pulses / pulses_per_mm, down when
\* direction is 1 and up for any other direction, starting from the
\* position the call found; the other controller's position and the
\* connection fields of both controllers stay as they are.
C23_MoveUpdatesPosition ==
    [][\A t \in DOMAIN th, a \in Axes :
          (/\ th[t].op = "move"
           /\ th[t].axis = a
           /\ th[t].pc = "sc_wait"
           /\ th'[t].pc = "mm_ret"
           /\ th'[t].ok)
          => /\ current_position[a] = th[t].pos0
             /\ Abs(current_position'[a] - current_position[a])
                   = th[t].pulses * TicksPerPulse
             /\ th[t].dir = 1 => current_position'[a] < current_position[a]
             /\ th[t].dir # 1 => current_position'[a] > current_position[a]
             /\ \A b \in Axes \ {a} : current_position'[b] = current_position[b]
             /\ connected' = connected
             /\ link' = link]_vars

\* a move_motor call with a direction that is neither 0 nor 1 has succeeded
\* and the position has gone up
C23_Witness ==
    /\ th["worker"].op = "move"
    /\ th["worker"].pc = "mm_ret"
    /\ th["worker"].ok
    /\ th["worker"].dir = 2
    /\ current_position[th["worker"].axis]
          = th["worker"].pos0 + th["worker"].pulses * TicksPerPulse

\* C24: go_home_x calls move_motor once, with direction 1 and
\* max_travel * pulses_per_mm pulses, and returns when that call returns:
\* with success and current_position 0 when the move succeeded, with
\* failure and current_position as it was at the call when it failed.
C24_HomeX ==
    [][\A t \in DOMAIN th, a \in Axes :
          (/\ th[t].op = "home_x" /\ th[t].axis = a
           /\ th[t].pc # "done" /\ th'[t] # th[t])
          => /\ th'[t].pc = "mm_entry"
                   => /\ th[t].pc = "home_entry"
                      /\ th'[t].dir = 1
                      /\ th'[t].pulses = max_travel * pulses_per_mm
             /\ th[t].pc = "mm_ret"
                   => /\ th'[t].pc = "done"
                      /\ th'[t].ok = th[t].ok
                      /\ current_position'[a] = (IF th[t].ok THEN 0 ELSE th[t].pos0)
                      /\ ~th[t].ok => current_position'[a] = current_position[a]]_vars

\* go_home_x has returned success after a move that took the position away
\* from 0
C24_Witness ==
    /\ th["worker"].op = "home_x"
    /\ th["worker"].pc = "done"
    /\ th["worker"].ok
    /\ th["worker"].wrote
    /\ current_position["X"] = 0

\* C25: go_home_y reports success, with current_position zeroed, only when
\* no move of the call has failed: the second move was performed, and
\* acknowledged, too.
C25_HomeYAfterSecondMove ==
    \A t \in DOMAIN th :
        (th[t].op = "home_y" /\ th[t].pc = "done" /\ th[t].ok) => ~th[t].timedOut

\* C30: a frame taken from the queue while waiting for ExecuteMove ends the
\* wait as the third acknowledgment of the move, whatever its byte 4 is.
C30_ExecuteMoveAnyFrame ==
    \A t \in DOMAIN th :
        (th[t].took # <<>> /\ th[t].took[1].cmd = EXECUTE_MOVE)
            => /\ th[t].took[1].ended
               /\ th[t].acks = 3

\* move_motor has succeeded on a frame whose byte 4 is the SetDirection
\* opcode, taken as the acknowledgment of ExecuteMove
C30_Witness ==
    /\ th["worker"].pc = "mm_ret"
    /\ th["worker"].ok
    /\ th["worker"].took # <<>>
    /\ th["worker"].took[1].cmd = EXECUTE_MOVE
    /\ th["worker"].took[1].b4 = SET_DIRECTION

\* C32: a frame the device emitted before a command was written (it was in
\* the serial buffer, in the listener's hands or in the queue at the write)
\* is never the frame that ends the wait for that command.
C32_NoStaleAcknowledgment ==
    \A t \in DOMAIN th :
        (th[t].took # <<>> /\ th[t].took[1].ended) => ~th[t].took[1].stale

\* C38: on a controller that is not connected, move_motor, go_home_x and
\* go_home_y return failure; no step of the call writes to the link, takes
\* from or adds to the response queue, or changes current_position.
C38_NotConnectedFails ==
    /\ [](\A t \in DOMAIN th :
            (th[t].op \in {"move", "home_x", "home_y"} /\ ~connected[th[t].axis])
                => /\ ~th[t].wrote
                   /\ th[t].pc = "done" => ~th[t].ok
                   /\ current_position[th[t].axis] = th[t].pos0)
    /\ [][\A t \in DOMAIN th :
            (/\ th[t].op \in {"move", "home_x", "home_y"}
             /\ ~connected[th[t].axis]
             /\ th[t].pc # "done"
             /\ th'[t] # th[t])
                => /\ response_queue' = response_queue
                   /\ ser_in' = ser_in
                   /\ pending' = pending
                   /\ current_position' = current_position]_vars

\* go_home_y has returned failure on a Y controller that is not connected
\* and whose queue holds a frame from before
C38_Witness ==
    /\ ~connected["Y"]
    /\ response_queue["Y"] # <<>>
    /\ th["worker"].op = "home_y"
    /\ th["worker"].pc = "done"
    /\ ~th["worker"].ok

(***************************************************************************)
(* Properties of the callers running side by side, checked under SpecConc. *)
(***************************************************************************)
\* a command of thread t is outstanding: written, its response awaited
Outstanding(t) == th[t].pc = "sc_wait"

\* C3: no two callers have a command outstanding on the same axis at once.
C3_SingleOutstanding ==
    \A t1, t2 \in DOMAIN th :
        (t1 # t2 /\ Outstanding(t1) /\ Outstanding(t2)) => th[t1].axis # th[t2].axis

\* the scan thread is between the first command of a point's move and the
\* last response of that move
InScanMove ==
    /\ "scan" \in DOMAIN th
    /\ scan_lock = "scan"
    /\ th["scan"].wrote
    /\ th["scan"].pc \in {"mm_entry", "sc_entry", "sc_drain", "sc_write", "sc_wait"}

\* thread t writes a command to a link in this step
Writes(t) == th[t].pc = "sc_write" /\ th'[t].pc = "sc_wait"

\* C4: while the scan thread is inside the two-leg move of a path point, no
\* other thread writes a command to either axis.
C4_ScanMoveAtomic ==
    [][InScanMove => \A t \in DOMAIN th : Writes(t) => t = "scan"]_vars

\* C5: every step that changes an axis's current_position is taken by a thread
\* that holds scan_lock.
C5_PositionUnderLock ==
    [][\A a \in Axes :
          current_position'[a] # current_position[a]
          => \A t \in DOMAIN th : th'[t] # th[t] => scan_lock = t]_vars

\* C33: once every caller has returned, the current_position of an axis on
\* which every command was acknowledged is where the acknowledged moves have
\* taken the stage since the last home, to within the part of a pulse that
\* int() cuts off a distance.
C33_PositionTracksHardware ==
    (\A t \in DOMAIN th : th[t].pc \in {"idle", "done"})
        => \A a \in Axes :
              hardware[a] # <<>>
                  => Abs(current_position[a] - hardware[a][1]) < TicksPerPulse

(***************************************************************************)
(* The scan: ScanThread.run and the window's start_scan, stop_scan and     *)
(* scan_complete.  The scan thread moves with move_to_position on thread   *)
(* "scan" through the command protocol above.                              *)
(***************************************************************************)
XSteps(p) == (p.width \div p.step_x) + 1

YSteps(p) == (p.height \div p.step_y) + 1

TotalPoints(p) == XSteps(p) * YSteps(p)

StartX(p) == p.center_x - p.width \div 2

StartY(p) == p.center_y - p.height \div 2

XRange_Ascending(p, y_idx) == [i \in 1..XSteps(p) |-> i - 1]

\* x_range of row y_idx: range(x_steps), or range(x_steps - 1, -1, -1)
XRange(p, y_idx) ==
    IF y_idx % 2 = 0
    THEN [i \in 1..XSteps(p) |-> i - 1]
    ELSE [i \in 1..XSteps(p) |-> XSteps(p) - i]

\* the points of row y_idx in the order the inner loop visits them
PathRow(p, y_idx) ==
    [i \in 1..XSteps(p) |->
        [x_idx |-> XRange(p, y_idx)[i], y_idx |-> y_idx,
         x_pos |-> StartX(p) + XRange(p, y_idx)[i] * p.step_x,
         y_pos |-> StartY(p) + y_idx * p.step_y]]

PathFrom_OneRow(p, y_idx) == PathRow(p, y_idx)

RECURSIVE PathFrom(_, _)
PathFrom(p, y_idx) ==
    IF y_idx >= YSteps(p) THEN <<>>
    ELSE PathRow(p, y_idx) \o PathFrom(p, y_idx + 1)

\* the points in the order the two nested loops visit them
ScanPath(p) == PathFrom(p, 0)

\* progress = int(current_point / total_points * 100)
Progress(current_point, total_points) == (current_point * 100) \div total_points

Note(kind, tag, a, b) == [kind |-> kind, tag |-> tag, a |-> a, b |-> b]

\* scan_completed.emit(success, message); counts is <<collected, total>>
\* when the message has them, <<>> otherwise
Completion(success, message, counts) == Note("completed", message, success, counts)

SetMax(S) == CHOOSE m \in S : \A n \in S : n <= m

SetMin(S) == CHOOSE m \in S : \A n \in S : m <= n

\* np.where((time_axis >= t_min) & (time_axis <= t_max))[0]
GateIndices(axis, t_min, t_max) ==
    {i \in 1..Len(axis) : axis[i] >= t_min /\ axis[i] <= t_max}

\* the <<max_val, min_val>> add_point appends and returns
GatedExtremes(spectrum, t_min, t_max) ==
    IF time_axis # <<>> /\ GateIndices(time_axis[1], t_min, t_max) # {}
    THEN LET cut == {spectrum[i] : i \in GateIndices(time_axis[1], t_min, t_max)}
         IN  <<SetMax(cut), SetMin(cut)>>
    ELSE <<0, 0>>

\* scan_data after add_point(x, y, spectrum, t_min, t_max)
AddPoint(d, x, y, spectrum, t_min, t_max) ==
    [d EXCEPT !.positions = Append(@, <<x, y>>),
              !.spectra = Append(@, spectrum),
              !.max_values = Append(@, GatedExtremes(spectrum, t_min, t_max)[1]),
              !.min_values = Append(@, GatedExtremes(spectrum, t_min, t_max)[2])]

\* what get_time_axis can leave in time_axis: an axis, or nothing when the
\* fetch fails
FetchOutcomes == {<<axis>> : axis \in TimeAxisChoices} \cup {<<>>}

StartRefusal_None(both_connected, save_path, have_axis) == ""

\* start_scan, lines 759-771: the warning it shows and returns with, "" when
\* it goes on to start the thread
StartRefusal(both_connected, save_path, have_axis) ==
    IF ~both_connected THEN "need to connect to motors"
    ELSE IF save_path = "" THEN "Please select save directory"
    ELSE IF ~have_axis THEN "Can't get time axis"
    ELSE ""

\* start_scan: it returns at once while scanning; the time axis is fetched
\* when there is none yet.  One scan is started in a behaviour.
StartScan ==
    /\ ~scanning
    /\ run.pc = "none"
    /\ \E save_path \in {"", "data"}, fetched \in FetchOutcomes :
         LET both_connected == connected["X"] /\ connected["Y"]
             tries_fetch == both_connected /\ save_path # "" /\ time_axis = <<>>
             axis_after == IF tries_fetch THEN fetched ELSE time_axis
             refusal == StartRefusal(both_connected, save_path, axis_after # <<>>)
         IN  IF refusal # ""
             THEN /\ start_warning' = refusal
                  /\ UNCHANGED <<scanning, time_axis, stopped, run>>
             ELSE /\ time_axis' = axis_after
                  /\ scanning' = TRUE
                  /\ stopped' = FALSE
                  /\ run' = [NoRun EXCEPT !.pc = "setup"]
                  /\ UNCHANGED start_warning
    /\ UNCHANGED <<axisVars, th, scan_lock, opsLeft, plan, scan_data, notes,
                   save_result, images, rec_images>>

\* stop_scan: the thread's flag is set and scanning is cleared at once
\* (a second request changes nothing)
StopScan ==
    /\ run.pc # "none"
    /\ ~stopped
    /\ stopped' = TRUE
    /\ scanning' = FALSE
    /\ run' = [run EXCEPT !.stop_at = [pc |-> run.pc, k |-> run.k,
                                       samples |-> Len(scan_data.positions)]]
    /\ UNCHANGED <<axisVars, th, scan_lock, opsLeft, time_axis, plan,
                   scan_data, notes, save_result, images, start_warning, rec_images>>

\* run, lines 107-152: the fields are read and scan_data starts empty
RunSetup ==
    /\ run.pc = "setup"
    /\ scan_data' = EmptyScanData
    /\ notes' = Append(notes, Note("status", "start_humidity", 0, 0))
    /\ run' = [run EXCEPT !.pc = "check", !.k = 1]
    /\ UNCHANGED <<axisVars, th, scan_lock, opsLeft, scanning, time_axis, plan,
                   stopped, save_result, images, start_warning, rec_images>>

StopRequested_Never(flag) == FALSE

\* the test of line 164, made once at the head of every path point
StopRequested(flag) == flag

\* run, lines 164-166: the flag is found set at the head of a point
RunStop ==
    /\ run.pc = "check"
    /\ run.k <= TotalPoints(plan)
    /\ StopRequested(stopped)
    /\ notes' = Append(notes, Completion(FALSE, "scan stopped", <<>>))
    /\ run' = [run EXCEPT !.pc = "ended"]
    /\ UNCHANGED <<axisVars, th, scan_lock, opsLeft, scanning, time_axis, plan,
                   stopped, scan_data, save_result, images, start_warning, rec_images>>

\* run, lines 168-173: the position and the status are emitted and
\* move_to_position is entered
RunMove ==
    /\ run.pc = "check"
    /\ run.k <= TotalPoints(plan)
    /\ ~StopRequested(stopped)
    /\ LET pt == ScanPath(plan)[run.k] IN
       /\ notes' = notes \o <<Note("position", "", pt.x_pos, pt.y_pos),
                             Note("status", "moving", pt.x_pos, pt.y_pos)>>
       /\ th' = [th EXCEPT !["scan"] = MoveToPositionEntry(pt.x_pos, pt.y_pos)]
    /\ run' = [run EXCEPT !.pc = "moving"]
    /\ UNCHANGED <<axisVars, scan_lock, opsLeft, scanning, time_axis, plan,
                   stopped, scan_data, save_result, images, start_warning, rec_images>>

\* run, lines 173-175: move_to_position returned False; continue
RunMoveFailed ==
    /\ run.pc = "moving"
    /\ th["scan"].pc = "done"
    /\ ~th["scan"].ok
    /\ LET pt == ScanPath(plan)[run.k] IN
       notes' = Append(notes, Note("status", "move failed", pt.x_pos, pt.y_pos))
    /\ run' = [run EXCEPT !.pc = "check", !.k = @ + 1, !.failed_moves = @ + 1]
    /\ th' = [th EXCEPT !["scan"] = IdleThread]
    /\ UNCHANGED <<axisVars, scan_lock, opsLeft, scanning, time_axis, plan,
                   stopped, scan_data, save_result, images, start_warning, rec_images>>

\* run, lines 177-179: move_to_position returned True; the settle time is
\* slept and the status is emitted
RunSettle ==
    /\ run.pc = "moving"
    /\ th["scan"].pc = "done"
    /\ th["scan"].ok
    /\ LET pt == ScanPath(plan)[run.k] IN
       notes' = Append(notes, Note("status", "acquiring", pt.x_pos, pt.y_pos))
    /\ run' = [run EXCEPT !.pc = "acquire"]
    /\ th' = [th EXCEPT !["scan"] = IdleThread]
    /\ UNCHANGED <<axisVars, scan_lock, opsLeft, scanning, time_axis, plan,
                   stopped, scan_data, save_result, images, start_warning, rec_images>>

\* what acquire_spectrum returns on a connection failure, a timeout, a bad
\* length or an exception (lines 977, 984, 991, 994)
AcquireFailed == "False"

\* the test of line 182
IsNone(spectrum) == spectrum = "None"

\* spectrum[indices] of line 213 raises IndexError when the waveform has no
\* sample at a gated index
AddPointRaises(spectrum, t_min, t_max) ==
    /\ time_axis # <<>>
    /\ \E i \in GateIndices(time_axis[1], t_min, t_max) : i > Len(spectrum)

\* scan_data when add_point raises: lines 207-208 have run
AddPointPartial(d, x, y, spectrum) ==
    [d EXCEPT !.positions = Append(@, <<x, y>>),
              !.spectra = Append(@, spectrum)]

\* run, lines 186-196 with the waveform acquired at path point pt, before
\* being the notifications emitted so far: the sample is emitted and added,
\* the counters advance and the progress is emitted; when add_point raises,
\* the handler of line 203 ends the run
Acquired(before, pt, spectrum) ==
    IF AddPointRaises(spectrum, plan.t_min, plan.t_max)
    THEN /\ scan_data' = AddPointPartial(scan_data, pt.x_pos, pt.y_pos, spectrum)
         /\ notes' = before \o <<Note("spectrum", "", 0, 0),
                                  Completion(FALSE, "scan error", <<>>)>>
         /\ run' = [run EXCEPT !.pc = "ended"]
    ELSE /\ scan_data' = AddPoint(scan_data, pt.x_pos, pt.y_pos, spectrum,
                                  plan.t_min, plan.t_max)
         /\ notes' = before \o
               <<Note("spectrum", "", 0, 0),
                 Note("status", "point", pt.x_pos, pt.y_pos),
                 Note("progress", "",
                      Progress(run.current_point + 1, TotalPoints(plan)), 0)>>
         /\ run' = [run EXCEPT !.pc = "check", !.k = @ + 1,
                               !.collected_points = @ + 1,
                               !.current_point = @ + 1]

\* run, lines 180-196: acquire_spectrum returns a waveform
RunAcquire ==
    /\ run.pc = "acquire"
    /\ \E spectrum \in WaveformChoices :
          Acquired(notes, ScanPath(plan)[run.k], spectrum)
    /\ UNCHANGED <<axisVars, th, scan_lock, opsLeft, scanning, time_axis, plan,
                   stopped, save_result, images, start_warning, rec_images>>

\* run, lines 180-186 and 203-204 when acquire_spectrum fails: the value is
\* tested against None; when it is not None it is handed to
\* spectrum_acquired, a signal declared for np.ndarray, whose emit raises
\* TypeError for another type, and the handler of line 203 ends the run
RunAcquireFails ==
    /\ run.pc = "acquire"
    /\ LET pt == ScanPath(plan)[run.k] IN
       IF IsNone(AcquireFailed)
       THEN /\ notes' = Append(notes, Note("status", "data acquire failed",
                                           pt.x_pos, pt.y_pos))
            /\ run' = [run EXCEPT !.pc = "check", !.k = @ + 1,
                                  !.failed_acquisitions = @ + 1]
       ELSE /\ notes' = Append(notes, Completion(FALSE, "scan error", <<>>))
            /\ run' = [run EXCEPT !.pc = "ended", !.failed_acquisitions = @ + 1]
    /\ UNCHANGED <<axisVars, th, scan_lock, opsLeft, scanning, time_axis, plan,
                   stopped, scan_data, save_result, images, start_warning, rec_images>>

\* as RunFinish, with the end-of-scan status emitted after the completion
RunFinish_CompletionFirst ==
    /\ run.pc = "check"
    /\ run.k > TotalPoints(plan)
    /\ notes' = notes \o
          <<Completion(TRUE, "Scan completed",
                       <<run.collected_points, TotalPoints(plan)>>),
            Note("status", "end_humidity", 0, 0)>>
    /\ run' = [run EXCEPT !.pc = "ended"]
    /\ UNCHANGED <<axisVars, th, scan_lock, opsLeft, scanning, time_axis, plan,
                   stopped, scan_data, save_result, images, start_warning, rec_images>>

\* run, lines 198-202: every point has been visited
RunFinish ==
    /\ run.pc = "check"
    /\ run.k > TotalPoints(plan)
    /\ notes' = notes \o
          <<Note("status", "end_humidity", 0, 0),
            Completion(TRUE, "Scan completed",
                       <<run.collected_points, TotalPoints(plan)>>)>>
    /\ run' = [run EXCEPT !.pc = "ended"]
    /\ UNCHANGED <<axisVars, th, scan_lock, opsLeft, scanning, time_axis, plan,
                   stopped, scan_data, save_result, images, start_warning, rec_images>>

\* the completion notification of the run
Outcome == notes[Len(notes)]

\* round(n / d) as Python rounds: to the nearest, a half to the even one
RoundDiv(n, d) ==
    LET q == n \div d
        r == n % d
    IN  IF 2 * r < d THEN q
        ELSE IF 2 * r > d THEN q + 1
        ELSE IF q % 2 = 0 THEN q ELSE q + 1

\* the missing-value sentinel of a grid cell; a cell with a value v holds <<v>>
NaN == <<>>

\* np.zeros((y_steps, x_steps)) * np.nan, or np.full(..., np.nan), twice
EmptyImages(p) ==
    [peak |-> [c \in (0..YSteps(p) - 1) \X (0..XSteps(p) - 1) |-> NaN],
     pp |-> [c \in (0..YSteps(p) - 1) \X (0..XSteps(p) - 1) |-> NaN]]

\* <<row, col>> of a position (lines 883-884)
CellOf(pos, p) ==
    <<RoundDiv(pos[2] - StartY(p), p.step_y), RoundDiv(pos[1] - StartX(p), p.step_x)>>

\* the test of line 886
InGrid(cell, p) ==
    /\ 0 <= cell[1] /\ cell[1] < YSteps(p)
    /\ 0 <= cell[2] /\ cell[2] < XSteps(p)

Written_Clamped(g, cell, max_val, min_val, p) ==
    LET row == IF cell[1] < 0 THEN 0
               ELSE IF cell[1] >= YSteps(p) THEN YSteps(p) - 1 ELSE cell[1]
        col == IF cell[2] < 0 THEN 0
               ELSE IF cell[2] >= XSteps(p) THEN XSteps(p) - 1 ELSE cell[2]
    IN  [peak |-> [g.peak EXCEPT ![<<row, col>>] = <<max_val>>],
         pp |-> [g.pp EXCEPT ![<<row, col>>] = <<max_val - min_val>>]]

Written_KeepFirst(g, cell, max_val, min_val, p) ==
    IF InGrid(cell, p) /\ g.peak[cell] = NaN
    THEN [peak |-> [g.peak EXCEPT ![cell] = <<max_val>>],
          pp |-> [g.pp EXCEPT ![cell] = <<max_val - min_val>>]]
    ELSE g

\* the grids after one sample (lines 886-888)
Written(g, cell, max_val, min_val, p) ==
    IF InGrid(cell, p)
    THEN [peak |-> [g.peak EXCEPT ![cell] = <<max_val>>],
          pp |-> [g.pp EXCEPT ![cell] = <<max_val - min_val>>]]
    ELSE g

\* the grids after the first i samples of the loop of line 882
RECURSIVE ImagesAfter(_, _, _)
ImagesAfter(d, p, i) ==
    IF i = 0 THEN EmptyImages(p)
    ELSE Written(ImagesAfter(d, p, i - 1), CellOf(d.positions[i], p),
                 d.max_values[i], d.min_values[i], p)

\* reconstruct_images, lines 860-896: the peak and the peak-to-peak grid;
\* nothing is shown without positions or values
Reconstructed(d, p) ==
    IF d.positions = <<>> \/ d.max_values = <<>> THEN <<>>
    ELSE <<ImagesAfter(d, p, Len(d.positions))>>

\* the grids of reconstruct_from_hdf5 after one sample (rec_scan_data.py,
\* lines 40-42)
WrittenFromHdf5(g, cell, max_val, min_val, p) ==
    IF 0 <= cell[1] /\ cell[1] < YSteps(p) /\ 0 <= cell[2] /\ cell[2] < XSteps(p)
    THEN [peak |-> [g.peak EXCEPT ![cell] = <<max_val>>],
          pp |-> [g.pp EXCEPT ![cell] = <<max_val - min_val>>]]
    ELSE g

\* the grids of reconstruct_from_hdf5 after the first i samples of the loop
\* of line 36, from np.full(..., np.nan) of lines 33-34
RECURSIVE ImagesFromHdf5After(_, _, _)
ImagesFromHdf5After(d, p, i) ==
    IF i = 0
    THEN [peak |-> [c \in (0..YSteps(p) - 1) \X (0..XSteps(p) - 1) |-> NaN],
          pp |-> [c \in (0..YSteps(p) - 1) \X (0..XSteps(p) - 1) |-> NaN]]
    ELSE WrittenFromHdf5(ImagesFromHdf5After(d, p, i - 1),
                         <<RoundDiv(d.positions[i][2] - StartY(p), p.step_y),
                           RoundDiv(d.positions[i][1] - StartX(p), p.step_x)>>,
                         d.max_values[i], d.min_values[i], p)

\* reconstruct_from_hdf5 (rec_scan_data.py, lines 9-42) on the datasets of a
\* file: the grids are built whatever the datasets hold
ReconstructedFromHdf5(d, p) == <<ImagesFromHdf5After(d, p, Len(d.positions))>>

\* what save_scan_data can return: nothing to save, or the file is
\* written, or writing it raises; waveforms of different lengths make no
\* table, so that writing them raises
SaveOutcomes(d) ==
    IF d.positions = <<>> \/ d.spectra = <<>> THEN {"no data"}
    ELSE IF \E i, j \in 1..Len(d.spectra) : Len(d.spectra[i]) # Len(d.spectra[j])
         THEN {"io error"}
         ELSE {"saved", "io error"}

ShouldSave_Always(success) == TRUE

\* the test of line 805
ShouldSave(success) == success

\* as ReconstructsAfter, with the grids built only after a save that worked
ReconstructsAfter_SavedOnly(save_outcome) == save_outcome = "saved"

\* whether scan_complete goes on to reconstruct_images once save_scan_data
\* has returned (line 813, outside the test of the save's result)
ReconstructsAfter(save_outcome) == TRUE

\* scan_complete, lines 796-815, the slot of the completion notification
ScanComplete ==
    /\ run.pc = "ended"
    /\ scanning' = FALSE
    /\ IF ShouldSave(Outcome.a)
       THEN /\ save_result' \in SaveOutcomes(scan_data)
            /\ images' = IF ReconstructsAfter(save_result')
                         THEN Reconstructed(scan_data, plan)
                         ELSE images
       ELSE UNCHANGED <<save_result, images, start_warning, rec_images>>
    /\ run' = [run EXCEPT !.pc = "delivered"]
    /\ UNCHANGED <<axisVars, th, scan_lock, opsLeft, time_axis, plan, stopped,
                   scan_data, notes, start_warning, rec_images>>

(***************************************************************************)
(* SpecScan: one scan over a plan with both controllers connected; the     *)
(* operator may ask to stop at any moment.  The devices answer a command   *)
(* with its own opcode within the timeout, or never: a wait times out only *)
(* when no answer is on its way.                                           *)
(***************************************************************************)
InitScan ==
    /\ connected \in [Axes -> BOOLEAN]
    /\ current_position = [a \in Axes |-> 0]
    /\ ser_in = [a \in Axes |-> <<>>]
    /\ held = [a \in Axes |-> <<>>]
    /\ response_queue = [a \in Axes |-> <<>>]
    /\ pending = [a \in Axes |-> 0]
    /\ spurious = [a \in Axes |-> 0]
    /\ hardware = [a \in Axes |-> <<0>>]
    /\ th = [t \in {"scan"} |-> IdleThread]
    /\ scan_lock = "free"
    /\ opsLeft = 0
    /\ plan \in Plans
    /\ ScanIdle
    /\ LinkIdle

NextScan ==
    \/ StartScan /\ UNCHANGED <<linkVars, callVars>>
    \/ StopScan /\ UNCHANGED <<linkVars, callVars>>
    \/ RunSetup /\ UNCHANGED <<linkVars, callVars>>
    \/ RunStop /\ UNCHANGED <<linkVars, callVars>>
    \/ RunMove /\ UNCHANGED <<linkVars, callVars>>
    \/ RunMoveFailed /\ UNCHANGED <<linkVars, callVars>>
    \/ RunSettle /\ UNCHANGED <<linkVars, callVars>>
    \/ RunAcquire /\ UNCHANGED <<linkVars, callVars>>
    \/ RunAcquireFails /\ UNCHANGED <<linkVars, callVars>>
    \/ RunFinish /\ UNCHANGED <<linkVars, callVars>>
    \/ ScanComplete /\ UNCHANGED <<linkVars, callVars>>
    \/ MoveToPositionLock("scan") /\ UNCHANGED <<scanVars, linkVars, callVars>>
    \/ LegXReturn("scan") /\ UNCHANGED <<scanVars, linkVars, callVars>>
    \/ LegYReturn("scan") /\ UNCHANGED <<scanVars, linkVars, callVars>>
    \/ MoveToPositionReturn("scan") /\ UNCHANGED <<scanVars, linkVars, callVars>>
    \/ MoveMotorEntry("scan") /\ UNCHANGED <<scanVars, linkVars, callVars>>
    \/ SendEntry("scan") /\ UNCHANGED <<scanVars, linkVars, callVars>>
    \/ SendDrain("scan") /\ UNCHANGED <<scanVars, linkVars, callVars>>
    \/ SendWrite("scan") /\ UNCHANGED <<scanVars, linkVars, callVars>>
    \/ WaitTake("scan") /\ UNCHANGED <<scanVars, linkVars, callVars>>
    \/ WaitTimeout("scan") /\ NoAnswerComing(th["scan"].axis) /\ UNCHANGED <<scanVars, linkVars, callVars>>
    \/ \E a \in Axes : DeviceEcho(a) /\ UNCHANGED <<scanVars, linkVars, callVars>>
    \/ \E a \in Axes : DeviceSilent(a) /\ UNCHANGED <<scanVars, linkVars, callVars>>
    \/ \E a \in Axes : ListenerRead(a) /\ UNCHANGED <<scanVars, linkVars, callVars>>
    \/ \E a \in Axes : ListenerPut(a) /\ UNCHANGED <<scanVars, linkVars, callVars>>

SpecScan == InitScan /\ [][NextScan]_vars

(***************************************************************************)
(* Properties of the scan, checked under SpecScan.                         *)
(***************************************************************************)
Ended == run.pc \in {"ended", "delivered"}

\* C8: a scan in which a move failed and no stop was requested ends in
\* Completed: its completion notification carries success, and scan_complete
\* hands the results to save_scan_data.
C8_MoveFailureNotFatal ==
    (Ended /\ run.failed_moves > 0 /\ ~stopped)
        => /\ Outcome.a
           /\ run.pc = "delivered" => save_result # "none"

\* C9: a failed acquisition skips the point: the run goes on to the next
\* path point with a status message, records no sample and does not end.
C9_AcquisitionFailureSkips ==
    [][(run.pc = "acquire" /\ run'.failed_acquisitions > run.failed_acquisitions)
          => /\ run'.pc = "check"
             /\ run'.k = run.k + 1
             /\ scan_data' = scan_data
             /\ notes'[Len(notes')].kind = "status"]_vars

ProgressNotes == SelectSeq(notes, LAMBDA n : n.kind = "progress")

\* C10: a scan that runs to completion has emitted total_points progress
\* notifications and the last of them is 100.
C10_ProgressEveryPoint ==
    (Ended /\ Outcome.kind = "completed" /\ Outcome.a)
        => /\ Len(ProgressNotes) = TotalPoints(plan)
           /\ ProgressNotes[Len(ProgressNotes)].a = 100

\* C11: in a completed scan with exactly one failed move the completion
\* message counts N-1 of N points collected, and the result still holds an
\* entry for every path point, the failed one with max = min = 0.
C11_FailedMoveRecorded ==
    (Ended /\ Outcome.a /\ run.failed_moves = 1)
        => /\ Outcome.b = <<TotalPoints(plan) - 1, TotalPoints(plan)>>
           /\ Len(scan_data.positions) = TotalPoints(plan)
           /\ \E i \in 1..Len(scan_data.max_values) :
                 scan_data.max_values[i] = 0 /\ scan_data.min_values[i] = 0

\* C13: a run that honours a stop request reports, with its completion
\* notification, the count of points collected so far.
C13_StoppedCarriesCount ==
    (Ended /\ Outcome.tag = "scan stopped")
        => (Outcome.b # <<>> /\ Outcome.b[1] = run.collected_points)

\* the point that was in flight when stop() was called, if any
InFlightAtStop == run.stop_at.pc \in {"moving", "acquire"}

\* C12: once stop() has been called, a move or an acquisition that is under
\* way belongs to the point that was in flight at the call, and at most that
\* one point adds a sample: no move starts for a later point and no further
\* sample is recorded.
C12_StopBeforeNextPoint ==
    stopped =>
        /\ run.pc \in {"moving", "acquire"}
              => (InFlightAtStop /\ run.k = run.stop_at.k)
        /\ th["scan"].pc \notin {"idle", "done"}
              => (run.stop_at.pc = "moving" /\ run.k = run.stop_at.k)
        /\ Len(scan_data.positions)
              <= run.stop_at.samples + (IF InFlightAtStop THEN 1 ELSE 0)
        /\ run.k <= run.stop_at.k + 1

\* a stop requested during a move: the move and the acquisition of that
\* point ran to their end, its sample was recorded, and the run then ended
C12_Witness ==
    /\ stopped
    /\ run.stop_at.pc = "moving"
    /\ Ended
    /\ Outcome.tag = "scan stopped"
    /\ Len(scan_data.positions) = run.stop_at.samples + 1

\* C14: save_scan_data is called only by the slot of a completion
\* notification that carries success; after a run has ended in Stopped or
\* Failed nothing is saved and scan_data stays as the run left it.
C14_NoSaveUnlessCompleted ==
    [][/\ save_result' # save_result => (run.pc = "ended" /\ Outcome.a)
       /\ (Ended /\ ~Outcome.a)
             => (scan_data' = scan_data /\ save_result' = "none")]_vars

\* a stopped run with a sample in scan_data whose notification was delivered
C14_Witness ==
    /\ run.pc = "delivered"
    /\ Outcome.tag = "scan stopped"
    /\ Len(scan_data.positions) >= 1
    /\ save_result = "none"

\* C27: a save_scan_data call that fails returns its failure to
\* scan_complete and leaves the result in memory (positions, waveforms, max
\* and min values, plan, time axis) as it was, and scan_complete still
\* runs reconstruct_images on that result.
C27_SaveFailureKeepsData ==
    [][(save_result' # save_result /\ save_result' # "saved")
          => /\ save_result' \in {"io error", "no data"}
             /\ scan_data' = scan_data
             /\ plan' = plan
             /\ time_axis' = time_axis
             /\ images' = Reconstructed(scan_data, plan)]_vars

\* a completed scan whose save failed on writing: the samples are still in
\* memory and the grids were built from them
C27_Witness ==
    /\ run.pc = "delivered"
    /\ save_result = "io error"
    /\ Len(scan_data.positions) >= 1
    /\ images = Reconstructed(scan_data, plan)
    /\ images # <<>>

\* C15: a scan thread is started only with both controllers connected and
\* a time axis in place after the step; a start that finds a controller
\* disconnected, or that is left without a time axis, starts no thread and
\* leaves the window not scanning.
C15_StartGuard ==
    [][/\ (run.pc = "none" /\ run'.pc # "none")
             => /\ connected["X"] /\ connected["Y"]
                /\ time_axis' # <<>>
                /\ scanning'
       /\ (run.pc = "none"
           /\ (~connected["X"] \/ ~connected["Y"] \/ time_axis' = <<>>))
             => (run'.pc = "none" /\ ~scanning')]_vars

\* start_scan was refused because the time axis could not be fetched
C15_Witness ==
    /\ start_warning = "Can't get time axis"
    /\ time_axis = <<>>
    /\ run.pc = "none"
    /\ ~scanning

\* C34: at the head of every path point and once the run has ended, the
\* four sample sequences of scan_data have the same length, which is the
\* run's collected_points and is at most total_points.
C34_SampleSequencesAligned ==
    run.pc \in {"check", "ended", "delivered"}
        => /\ Len(scan_data.positions) = run.collected_points
           /\ Len(scan_data.spectra) = run.collected_points
           /\ Len(scan_data.max_values) = run.collected_points
           /\ Len(scan_data.min_values) = run.collected_points
           /\ run.collected_points <= TotalPoints(plan)

\* the places of a caller inside move_motor
InMoveMotor == {"mm_entry", "sc_entry", "sc_drain", "sc_write", "sc_wait", "mm_ret"}

\* C35: move_to_position is inside move_motor only for a leg whose pulse
\* count is not 0; once the X leg has returned, with success or not, the Y
\* leg follows when its pulse count is not 0; x_success and y_success are
\* the results of the legs attempted and the call returns their
\* conjunction; a position changes only inside an attempted leg, is the
\* target after an acknowledged leg and is left alone by a failed one.
C35_MoveToPositionLegs ==
    [][LET r == th["scan"]
           r2 == th'["scan"]
           a == IF r.leg = "x" THEN "X" ELSE "Y"
           target == IF r.leg = "x" THEN r.tx ELSE r.ty
       IN  (r.op = "scan_move" /\ r2 # r) =>
           /\ r2.pc \in InMoveMotor
                 => /\ r2.leg \in {"x", "y"}
                    /\ r2.pulses > 0
                    /\ r2.axis = (IF r2.leg = "x" THEN "X" ELSE "Y")
           /\ r.pc = "mtp_lock" /\ r2.pc # "mtp_lock"
                 => /\ r2.x_ok /\ r2.y_ok
                    /\ r2.leg = (IF r.pulses > 0 THEN "x"
                                 ELSE IF r.pulses_y > 0 THEN "y" ELSE "none")
           /\ r.pc = "mm_ret" /\ r.leg = "x"
                 => /\ r2.x_ok = r.ok
                    /\ r2.leg = (IF r.pulses_y > 0 THEN "y" ELSE "none")
                    /\ r2.pc = (IF r.pulses_y > 0 THEN "mm_entry" ELSE "mtp_unlock")
           /\ r.pc = "mm_ret" /\ r.leg = "y"
                 => /\ r2.y_ok = r.ok
                    /\ r2.x_ok = r.x_ok
                    /\ r2.pc = "mtp_unlock"
           /\ r.pc = "mm_ret"
                 => current_position'[a] = (IF r.ok THEN target ELSE current_position[a])
           /\ r.pc = "mtp_unlock"
                 => /\ r2.pc = "done"
                    /\ r2.ok = (r.x_ok /\ r.y_ok)
           /\ \A b \in Axes :
                 current_position'[b] # current_position[b]
                     => /\ b = a
                        /\ r.pulses > 0
                        /\ \/ r.pc = "mm_ret" /\ r.ok
                           \/ r.pc = "sc_wait" /\ r2.pc = "mm_ret" /\ r2.ok]_vars

\* the X leg has failed, and the Y leg was attempted all the same and
\* acknowledged: Y is at its target, X where it was, and the call is about
\* to return failure
C35_Witness ==
    /\ th["scan"].op = "scan_move"
    /\ th["scan"].pc = "mtp_unlock"
    /\ ~th["scan"].x_ok
    /\ th["scan"].y_ok
    /\ th["scan"].pulses_y > 0
    /\ current_position["Y"] = th["scan"].ty
    /\ current_position["X"] # th["scan"].tx

CompletionNotes == SelectSeq(notes, LAMBDA n : n.kind = "completed")

\* C37: a run of the scan thread emits exactly one completion notification
\* and it is the last notification of the run: a run that has not ended has
\* emitted none, a run that has ended has emitted one, nothing was emitted
\* after it, and nothing is emitted once the run has ended.
C37_OneCompletionLast ==
    /\ [](/\ Len(CompletionNotes) = (IF Ended THEN 1 ELSE 0)
          /\ Ended => Outcome.kind = "completed")
    /\ [][Ended => notes' = notes]_vars

\* a run that the handler of line 203 ended after other notifications, and
\* whose completion has been delivered to scan_complete
C37_Witness ==
    /\ run.pc = "delivered"
    /\ Outcome.kind = "completed"
    /\ Outcome.tag = "scan error"
    /\ Len(notes) > 3

(***************************************************************************)
(* SpecSweep: one scan, from start_scan to scan_complete, over every plan  *)
(* of a bounded family, with no stop request and with devices that answer  *)
(* every command in time: a path point's move_to_position is one step that *)
(* succeeds, and its acquisition returns a waveform.                       *)
(***************************************************************************)
\* widths and heights, even numbers of ticks
Extents == {w \in 0..MaxExtent : w % 2 = 0}

Steps == 1..MaxStep

\* the gates <<t_min, t_max>> of the family
Gates == {<<1, 2>>, <<0, 3>>, <<0, 1>>, <<5, 6>>, <<2, 2>>}

SweepPlans ==
    {[center_x |-> 3, center_y |-> 2, width |-> w, height |-> h,
      step_x |-> sx, step_y |-> sy, t_min |-> g[1], t_max |-> g[2]] :
        w \in Extents, h \in Extents, sx \in Steps, sy \in Steps, g \in Gates}

\* current_position of an axis after a leg of move_to_position that
\* succeeds (lines 919-930): the target, unless no pulse is to be sent
AfterLeg(target, current) ==
    IF PulseCount(target, current) > 0 THEN target ELSE current

\* run, lines 164-196, for one path point whose move succeeds and whose
\* acquisition returns a waveform
SweepPoint ==
    /\ run.pc = "check"
    /\ run.k <= TotalPoints(plan)
    /\ ~StopRequested(stopped)
    /\ LET pt == ScanPath(plan)[run.k] IN
       /\ current_position' =
             [current_position EXCEPT !["X"] = AfterLeg(pt.x_pos, @),
                                      !["Y"] = AfterLeg(pt.y_pos, @)]
       /\ \E spectrum \in WaveformChoices :
             Acquired(notes \o <<Note("position", "", pt.x_pos, pt.y_pos),
                                 Note("status", "moving", pt.x_pos, pt.y_pos),
                                 Note("status", "acquiring", pt.x_pos, pt.y_pos)>>,
                      pt, spectrum)
    /\ UNCHANGED <<connected, ser_in, held, response_queue, pending, spurious, hardware,
                   th, scan_lock, opsLeft, scanning, time_axis, plan, stopped,
                   save_result, images, start_warning, rec_images>>

InitSweep ==
    /\ connected = [a \in Axes |-> TRUE]
    /\ current_position = [a \in Axes |-> 0]
    /\ ser_in = [a \in Axes |-> <<>>]
    /\ held = [a \in Axes |-> <<>>]
    /\ response_queue = [a \in Axes |-> <<>>]
    /\ pending = [a \in Axes |-> 0]
    /\ spurious = [a \in Axes |-> 0]
    /\ hardware = [a \in Axes |-> <<0>>]
    /\ th = [t \in {"scan"} |-> IdleThread]
    /\ scan_lock = "free"
    /\ opsLeft = 0
    /\ plan \in SweepPlans
    /\ ScanIdle
    /\ LinkIdle

NextSweep ==
    \/ StartScan /\ UNCHANGED <<linkVars, callVars>>
    \/ RunSetup /\ UNCHANGED <<linkVars, callVars>>
    \/ SweepPoint /\ UNCHANGED <<linkVars, callVars>>
    \/ RunFinish /\ UNCHANGED <<linkVars, callVars>>
    \/ ScanComplete /\ UNCHANGED <<linkVars, callVars>>

SpecSweep == InitSweep /\ [][NextSweep]_vars

(***************************************************************************)
(* Properties of the path and of the gate, checked under SpecSweep.        *)
(***************************************************************************)
Cells(p) == (0..XSteps(p) - 1) \X (0..YSteps(p) - 1)

PositionNotes == SelectSeq(notes, LAMBDA n : n.kind = "position")

\* C16: total_points is the number of grid cells, the path holds every
\* cell exactly once, the points are visited in the path's order and a
\* run that reaches the end of the loop has visited all of them.
C16_PathCoversGrid ==
    LET path == ScanPath(plan) IN
    /\ TotalPoints(plan) = Cardinality(Cells(plan))
    /\ Len(path) = TotalPoints(plan)
    /\ \A c \in Cells(plan) :
          Cardinality({i \in 1..Len(path) :
                          path[i].x_idx = c[1] /\ path[i].y_idx = c[2]}) = 1
    /\ Len(PositionNotes) <= Len(path)
    /\ \A i \in 1..Len(PositionNotes) :
          /\ PositionNotes[i].a = path[i].x_pos
          /\ PositionNotes[i].b = path[i].y_pos
    /\ (Ended /\ Outcome.a) => Len(PositionNotes) = TotalPoints(plan)

\* a completed walk over a grid of three rows and three columns
C16_Witness ==
    /\ Ended
    /\ Outcome.a
    /\ XSteps(plan) = 3
    /\ YSteps(plan) = 3

\* C17: the i-th path point lies in row (i-1) div x_steps; in an even row
\* the column index ascends from 0, in an odd row it descends from
\* x_steps-1; two consecutive points differ by one step in one axis.
C17_Boustrophedon ==
    LET path == ScanPath(plan)
        xs == XSteps(plan)
    IN
    /\ \A i \in 1..Len(path) :
          /\ path[i].y_idx = (i - 1) \div xs
          /\ path[i].x_idx = IF path[i].y_idx % 2 = 0
                             THEN (i - 1) % xs
                             ELSE xs - 1 - ((i - 1) % xs)
    /\ \A i \in 1..Len(path) - 1 :
          \/ /\ path[i + 1].y_pos = path[i].y_pos
             /\ Abs(path[i + 1].x_pos - path[i].x_pos) = plan.step_x
             /\ Abs(path[i + 1].x_idx - path[i].x_idx) = 1
          \/ /\ path[i + 1].x_pos = path[i].x_pos
             /\ path[i + 1].y_pos - path[i].y_pos = plan.step_y
             /\ path[i + 1].y_idx - path[i].y_idx = 1

\* the walk is inside an odd row of at least two columns
C17_Witness ==
    /\ XSteps(plan) >= 2
    /\ run.pc = "check"
    /\ run.k = XSteps(plan) + 2
    /\ Len(PositionNotes) = XSteps(plan) + 1
    /\ PositionNotes[XSteps(plan) + 1].a = PositionNotes[XSteps(plan)].a

\* the indices of the time axis whose value lies in the gate of the plan,
\* both ends included
InGate == {i \in 1..Len(time_axis[1]) :
              plan.t_min <= time_axis[1][i] /\ time_axis[1][i] <= plan.t_max}

\* a waveform was acquired in this step: it is the new last entry of spectra
Acquires == Len(scan_data'.spectra) = Len(scan_data.spectra) + 1

\* the entry add_point made for the waveform acquired in this step: its max
\* and min are those of the waveform's samples at the gated indices, or 0
\* and 0 when the gate holds no index
RecordsGated ==
    LET n == Len(scan_data'.spectra)
        w == scan_data'.spectra[n]
        gated == {w[i] : i \in InGate \cap (1..Len(w))}
    IN
    /\ Len(scan_data'.positions) = n
    /\ Len(scan_data'.max_values) = n
    /\ Len(scan_data'.min_values) = n
    /\ IF InGate = {}
       THEN scan_data'.max_values[n] = 0 /\ scan_data'.min_values[n] = 0
       ELSE /\ scan_data'.max_values[n] \in gated
            /\ scan_data'.min_values[n] \in gated
            /\ \A v \in gated : /\ v <= scan_data'.max_values[n]
                                /\ scan_data'.min_values[n] <= v

\* the waveform acquired in this step has a sample at every gated index
CoversGate ==
    \A i \in InGate : i <= Len(scan_data'.spectra[Len(scan_data'.spectra)])

\* C18: for every acquired waveform add_point records the max and the min
\* of the samples inside the inclusive gate, or 0 and 0 for an empty gate.
C18_GateEveryWaveform == [][Acquires => RecordsGated]_vars

\* the same for the waveforms that cover the gate; it holds under SpecSweep
GateCoveredWaveform == [][(Acquires /\ CoversGate) => RecordsGated]_vars

(***************************************************************************)
(* SpecRec: the two reconstructions applied to stored samples.  scan_data  *)
(* holds the positions and values of a result (in memory for              *)
(* reconstruct_images, read from a file for reconstruct_from_hdf5) and     *)
(* plan holds its scan parameters; the positions are drawn from on, between*)
(* and beyond the grid points of the plan, and a result may hold no sample.*)
(***************************************************************************)
\* a grid of two rows and two columns: columns at x = 2 and 4, rows at
\* y = 1 and 3
RecPlan ==
    [center_x |-> 3, center_y |-> 2, width |-> 2, height |-> 2,
     step_x |-> 2, step_y |-> 2, t_min |-> 1, t_max |-> 2]

\* the <<max, min>> of a stored sample
RecValues == {<<5, 1>>, <<7, 2>>}

\* x = 0 rounds to column -1, x = 1 (-0.5) to 0, x = 4 to 1 and x = 5 (1.5)
\* to 2; y = 1 rounds to row 0, y = 3 to 1 and y = 5 to 2
RecSamples ==
    {[x |-> x, y |-> y, max |-> v[1], min |-> v[2]] :
        x \in {0, 1, 4, 5}, y \in {1, 3, 5}, v \in RecValues}

\* the datasets of a result with the samples of sequence ss
DataOf(ss) ==
    [positions |-> [i \in 1..Len(ss) |-> <<ss[i].x, ss[i].y>>],
     spectra |-> [i \in 1..Len(ss) |-> <<ss[i].max, ss[i].min>>],
     max_values |-> [i \in 1..Len(ss) |-> ss[i].max],
     min_values |-> [i \in 1..Len(ss) |-> ss[i].min]]

\* reconstruct_images on the result in memory
ReconstructImages ==
    /\ images = <<>>
    /\ images' = Reconstructed(scan_data, plan)
    /\ UNCHANGED <<axisVars, th, scan_lock, opsLeft, scanning, time_axis, plan,
                   stopped, run, scan_data, notes, save_result, start_warning,
                   rec_images>>

\* reconstruct_from_hdf5 on the same result read from its file
ReconstructFromHdf5 ==
    /\ rec_images = <<>>
    /\ rec_images' = ReconstructedFromHdf5(scan_data, plan)
    /\ UNCHANGED <<axisVars, th, scan_lock, opsLeft, scanning, time_axis, plan,
                   stopped, run, scan_data, notes, save_result, start_warning,
                   images>>

InitRec ==
    /\ connected = [a \in Axes |-> FALSE]
    /\ current_position = [a \in Axes |-> 0]
    /\ ser_in = [a \in Axes |-> <<>>]
    /\ held = [a \in Axes |-> <<>>]
    /\ response_queue = [a \in Axes |-> <<>>]
    /\ pending = [a \in Axes |-> 0]
    /\ spurious = [a \in Axes |-> 0]
    /\ hardware = [a \in Axes |-> <<0>>]
    /\ th = [t \in {"scan"} |-> IdleThread]
    /\ scan_lock = "free"
    /\ opsLeft = 0
    /\ scanning = FALSE
    /\ time_axis = <<>>
    /\ plan = RecPlan
    /\ stopped = FALSE
    /\ run = NoRun
    /\ \E n \in 0..MaxSamples : \E ss \in [1..n -> RecSamples] :
          scan_data = DataOf(ss)
    /\ notes = <<>>
    /\ save_result = "none"
    /\ images = <<>>
    /\ start_warning = ""
    /\ rec_images = <<>>
    /\ LinkIdle

NextRec ==
    \/ ReconstructImages /\ UNCHANGED <<linkVars, callVars>>
    \/ ReconstructFromHdf5 /\ UNCHANGED <<linkVars, callVars>>

SpecRec == InitRec /\ [][NextRec]_vars

(***************************************************************************)
(* Properties of the reconstruction, checked under SpecRec.                *)
(***************************************************************************)
\* the grids built so far, by either reconstruction
Built == {g \in {images, rec_images} : g # <<>>}

\* sample i rounds to a row and a column of the grid
OnGrid(i) == InGrid(CellOf(scan_data.positions[i], plan), plan)

\* the indices of the samples that round into the grid, in sequence order
KeptIndices ==
    SelectSeq([i \in 1..Len(scan_data.positions) |-> i], LAMBDA i : OnGrid(i))

\* scan_data without the samples that round outside the grid
Kept ==
    [positions |-> [k \in 1..Len(KeptIndices) |-> scan_data.positions[KeptIndices[k]]],
     spectra |-> [k \in 1..Len(KeptIndices) |-> scan_data.spectra[KeptIndices[k]]],
     max_values |-> [k \in 1..Len(KeptIndices) |-> scan_data.max_values[KeptIndices[k]]],
     min_values |-> [k \in 1..Len(KeptIndices) |-> scan_data.min_values[KeptIndices[k]]]]

\* C19: a sample whose rounded row or column index is outside the grid
\* writes no cell: the grids are those built from the other samples alone,
\* and they are built (no error) whatever the indices are.
C19_OutsideDropped ==
    \A g \in Built : g[1] = ImagesAfter(Kept, plan, Len(KeptIndices))

\* both reconstructions have run on samples of which one rounds to a column
\* index equal to x_steps and one to a negative column index
C19_Witness ==
    /\ images # <<>>
    /\ rec_images # <<>>
    /\ \E i \in 1..Len(scan_data.positions) :
          CellOf(scan_data.positions[i], plan)[2] = XSteps(plan)
    /\ \E i \in 1..Len(scan_data.positions) :
          CellOf(scan_data.positions[i], plan)[2] < 0

\* the last index of positions that rounds to cell <<row, col>>, 0 if none
LastOn(row, col) ==
    LET on == {i \in 1..Len(scan_data.positions) :
                  /\ RoundDiv(scan_data.positions[i][1] - StartX(plan), plan.step_x) = col
                  /\ RoundDiv(scan_data.positions[i][2] - StartY(plan), plan.step_y) = row}
    IN  IF on = {} THEN 0 ELSE SetMax(on)

\* C20: a cell no sample rounds to holds the sentinel in both grids; any
\* other cell holds the max, and max minus min, of the last sample in
\* sequence order that rounds to it.
C20_LastWriteWins ==
    \A g \in Built :
        \A row \in 0..YSteps(plan) - 1, col \in 0..XSteps(plan) - 1 :
            LET l == LastOn(row, col) IN
            IF l = 0
            THEN g[1].peak[<<row, col>>] = NaN /\ g[1].pp[<<row, col>>] = NaN
            ELSE /\ g[1].peak[<<row, col>>] = <<scan_data.max_values[l]>>
                 /\ g[1].pp[<<row, col>>] =
                       <<scan_data.max_values[l] - scan_data.min_values[l]>>

\* two samples with different max values round to one cell, and the grid is
\* built
C20_Witness ==
    /\ images # <<>>
    /\ Len(scan_data.positions) = 2
    /\ OnGrid(1)
    /\ CellOf(scan_data.positions[1], plan) = CellOf(scan_data.positions[2], plan)
    /\ scan_data.max_values[1] # scan_data.max_values[2]
    /\ images[1].peak[CellOf(scan_data.positions[2], plan)] = <<scan_data.max_values[2]>>

\* C36, as stated: on the same parameters, positions and values
\* reconstruct_images builds the grids reconstruct_from_hdf5 returns.
C36_SameGridsAlways ==
    rec_images # <<>> => Reconstructed(scan_data, plan) = rec_images

\* C36 on results with samples: on a result with at least one sample, reconstruct_images
\* builds the grids reconstruct_from_hdf5 returns, cell for cell, missing
\* cells included; whenever both have built grids, the grids are the same.
C36_SameGridsWithSamples ==
    /\ (rec_images # <<>> /\ scan_data.positions # <<>>)
          => Reconstructed(scan_data, plan) = rec_images
    /\ (images # <<>> /\ rec_images # <<>>) => images = rec_images

\* both reconstructions have run on samples of which one rounds outside the
\* grid and one is written, and a cell is left missing
C36_Witness ==
    /\ images # <<>>
    /\ rec_images # <<>>
    /\ \E i \in 1..Len(scan_data.positions) : ~OnGrid(i)
    /\ \E i \in 1..Len(scan_data.positions) : OnGrid(i)
    /\ \E c \in DOMAIN rec_images[1].peak : rec_images[1].peak[c] = NaN

(***************************************************************************)
(* Connecting and disconnecting a controller.  connect() and disconnect()  *)
(* are called on the control thread, one call at a time; the listener      *)
(* (monitor_responses) runs on a thread of its own.  disconnect() waits in *)
(* join(timeout=1.0) for the listener, whose loop sleeps 0.01 s between    *)
(* two tests of running and blocks nowhere else (read(10) is called with   *)
(* 10 bytes waiting): the wait ends with the listener returned.            *)
(***************************************************************************)
\* the fields of controller a that its callers can see
AxisState(a) ==
    [connected |-> connected[a], running |-> link[a].running, ser |-> link[a].ser,
     response_thread |-> link[a].response_thread, alive |-> link[a].alive,
     response_queue |-> response_queue[a],
     current_position |-> current_position[a]]

\* start_response_monitor (lines 60-65) on the fields l of a controller whose
\* connected flag is is_connected
StartResponseMonitor(l, is_connected) ==
    IF is_connected /\ ~l.running
    THEN [l EXCEPT !.running = TRUE, !.response_thread = "thread", !.alive = @ + 1]
    ELSE l

\* connect(port), lines 32-48: serial.Serial(...) opens the port and the
\* monitor is started, or it raises SerialException (no such port, or a
\* port that is held already) and only connected is cleared
Connect(a) ==
    /\ gui.pc = "idle"
    /\ \E opened \in BOOLEAN :
          IF opened
          THEN /\ connected' = [connected EXCEPT ![a] = TRUE]
               /\ link' = [link EXCEPT ![a] =
                             StartResponseMonitor(
                                [@ EXCEPT !.ser = "open", !.ever = TRUE, !.discs = 0],
                                TRUE)]
               /\ ser_in' = [ser_in EXCEPT ![a] = <<>>]
          ELSE /\ connected' = [connected EXCEPT ![a] = FALSE]
               /\ link' = [link EXCEPT ![a].discs = 0]
               /\ UNCHANGED ser_in
    /\ UNCHANGED <<current_position, held, response_queue, pending, spurious, hardware,
                   th, scan_lock, opsLeft, scanVars, gui, callVars>>

\* disconnect(), lines 51 and 68-70: running is cleared and the listener,
\* if there is one alive, is joined
DisconnectCall(a) ==
    /\ gui.pc = "idle"
    /\ link' = [link EXCEPT ![a].running = FALSE]
    /\ gui' = [pc |-> "join", axis |-> a, before |-> <<AxisState(a)>>]
    /\ UNCHANGED <<axisVars, th, scan_lock, opsLeft, scanVars, callVars>>

\* as Disconnected, with the stream left as it is
Disconnected_StreamKept(l) ==
    [l EXCEPT !.response_thread = "none",
              !.discs = IF @ < 2 THEN @ + 1 ELSE @]

\* the fields after lines 71 and 52-55: the thread is forgotten, the stream
\* is closed if there is one and it is open, and ser is None
Disconnected(l) ==
    [l EXCEPT !.response_thread = "none", !.ser = "none",
              !.discs = IF @ < 2 THEN @ + 1 ELSE @]

\* disconnect(), lines 70-71 and 52-55: the join has ended
DisconnectReturn ==
    LET a == gui.axis IN
    /\ gui.pc = "join"
    /\ link[a].response_thread = "none" \/ link[a].alive = 0
    /\ link' = [link EXCEPT ![a] = Disconnected(@)]
    /\ connected' = [connected EXCEPT ![a] = FALSE]
    /\ ser_in' = [ser_in EXCEPT ![a] = <<>>]
    /\ gui' = NoCall
    /\ UNCHANGED <<current_position, held, response_queue, pending, spurious, hardware,
                   th, scan_lock, opsLeft, scanVars, callVars>>

\* monitor_responses, line 74: the loop test fails and the thread returns
ListenerExit(a) ==
    /\ link[a].alive > 0
    /\ held[a] = <<>>
    /\ ~Monitoring(link[a])
    /\ link' = [link EXCEPT ![a].alive = @ - 1]
    /\ UNCHANGED <<axisVars, th, scan_lock, opsLeft, scanVars, gui, callVars>>

\* monitor_responses, lines 82-84: in_waiting or read raises SerialException
\* and the thread leaves its loop
ListenerError(a) ==
    /\ link[a].alive > 0
    /\ held[a] = <<>>
    /\ Monitoring(link[a])
    /\ link' = [link EXCEPT ![a].alive = @ - 1]
    /\ UNCHANGED <<axisVars, th, scan_lock, opsLeft, scanVars, gui, callVars>>

(***************************************************************************)
(* SpecLink: connect() and disconnect() called in any order on the two     *)
(* controllers, with their listeners and with devices that emit frames.    *)
(***************************************************************************)
InitLink ==
    /\ connected = [a \in Axes |-> FALSE]
    /\ current_position = [a \in Axes |-> 0]
    /\ ser_in = [a \in Axes |-> <<>>]
    /\ held = [a \in Axes |-> <<>>]
    /\ response_queue = [a \in Axes |-> <<>>]
    /\ pending = [a \in Axes |-> 0]
    /\ spurious = [a \in Axes |-> MaxSpurious]
    /\ hardware = [a \in Axes |-> <<0>>]
    /\ th = [t \in {"worker"} |-> IdleThread]
    /\ scan_lock = "free"
    /\ opsLeft = 0
    /\ plan = SquarePlan
    /\ ScanIdle
    /\ LinkIdle

NextLink ==
    \/ \E a \in Axes : Connect(a)
    \/ \E a \in Axes : DisconnectCall(a)
    \/ DisconnectReturn
    \/ \E a \in Axes : ListenerExit(a)
    \/ \E a \in Axes : ListenerError(a)
    \/ \E a \in Axes : DeviceSpurious(a) /\ UNCHANGED <<scanVars, linkVars, callVars>>
    \/ \E a \in Axes : ListenerRead(a) /\ UNCHANGED <<scanVars, linkVars, callVars>>
    \/ \E a \in Axes : ListenerPut(a) /\ UNCHANGED <<scanVars, linkVars, callVars>>

SpecLink == InitLink /\ [][NextLink]_vars

(***************************************************************************)
(* Properties of connect and disconnect, checked under SpecLink.           *)
(***************************************************************************)
\* the state Disconnected of a controller: no stream, no listener
IsDisconnected(st) ==
    /\ ~st.connected
    /\ ~st.running
    /\ st.ser = "none"
    /\ st.response_thread = "none"
    /\ st.alive = 0

\* a disconnect() call returns in this step
DisconnectReturns == gui.pc = "join" /\ gui'.pc = "idle"

\* C21: whatever state the axis was in when disconnect() was called, the
\* call returns with the axis Disconnected, without a stream and without a
\* listener; a call made on an axis that was Disconnected already returns
\* with every field of the controller as it was.
C21_DisconnectIdempotent ==
    [][\A a \in Axes :
          (DisconnectReturns /\ gui.axis = a) =>
              /\ IsDisconnected(AxisState(a)')
              /\ IsDisconnected(gui.before[1]) => AxisState(a)' = gui.before[1]]_vars

\* disconnect() has returned twice in a row on an axis that had been
\* connected, and frames the listener queued are still in the queue
C21_Witness ==
    /\ gui.pc = "idle"
    /\ \E a \in Axes :
          /\ link[a].ever
          /\ link[a].discs = 2
          /\ response_queue[a] # <<>>

\* C22: between two calls, a connected axis has exactly one live listener
\* and an axis that is not connected has none.
C22_OneListenerPerConnection ==
    gui.pc = "idle" =>
        \A a \in Axes : link[a].alive = (IF connected[a] THEN 1 ELSE 0)

\* no axis ever has two live listeners; it holds under SpecLink
AtMostOneListener == \A a \in Axes : link[a].alive <= 1

(***************************************************************************)
(* get_time_axis and acquire_spectrum: one request to the instrument's TCP *)
(* server per call.  What is received is a number of whole float64 samples *)
(* followed by stray bytes that make up no sample.                         *)
(***************************************************************************)
\* the samples of the data the instrument may send
SampleChoices == {<<5>>, <<1, 4>>, <<0, 1, 2, 3>>}

\* what a call meets: the connection is made or not, data arrives within
\* the timeout or not, and the data that arrives
AcqInputs ==
    [connects : BOOLEAN, arrives : BOOLEAN, samples : SampleChoices,
     stray : {0, 3, 4}]

\* len(byte_data)
ByteLength(in) == Len(in.samples) * float64_bytes + in.stray

\* as BadLength, with every length taken
BadLength_Never(nbytes) == FALSE

\* the test of lines 957 and 982
BadLength(nbytes) == nbytes % float64_bytes # 0

\* np.frombuffer(byte_data, dtype=np.float64) for the lengths it takes
FromBuffer(in) == in.samples

\* what a call gets from the server (lines 946-966 and 973-991): <<samples>>
\* when the connection is made, data arrives and its length is taken, <<>>
\* in the three other cases
Received(in) ==
    IF ~in.connects THEN <<>>
    ELSE IF ~in.arrives THEN <<>>
    ELSE IF BadLength(ByteLength(in)) THEN <<>>
    ELSE <<FromBuffer(in)>>

\* get_time_axis(): True with time_axis stored, or False
GetTimeAxis ==
    /\ \E in \in AcqInputs :
          /\ acq' = [fn |-> "get_time_axis", connects |-> in.connects,
                     arrives |-> in.arrives, data |-> <<in.samples, in.stray>>,
                     ok |-> Received(in) # <<>>, value |-> <<>>,
                     axis_before |-> time_axis]
          /\ time_axis' = IF Received(in) # <<>> THEN Received(in) ELSE time_axis
    /\ UNCHANGED <<axisVars, th, scan_lock, opsLeft, scanning, plan, stopped, run,
                   scan_data, notes, save_result, images, start_warning,
                   rec_images, linkVars, threads, paused>>

\* acquire_spectrum(): the waveform, or False
AcquireSpectrum ==
    /\ \E in \in AcqInputs :
          acq' = [fn |-> "acquire_spectrum", connects |-> in.connects,
                  arrives |-> in.arrives, data |-> <<in.samples, in.stray>>,
                  ok |-> Received(in) # <<>>, value |-> Received(in),
                  axis_before |-> time_axis]
    /\ UNCHANGED <<axisVars, th, scan_lock, opsLeft, scanVars, linkVars, threads, paused>>

(***************************************************************************)
(* SpecAcq: get_time_axis and acquire_spectrum called in any order, each   *)
(* call meeting any of the inputs.                                         *)
(***************************************************************************)
InitAcq ==
    /\ connected = [a \in Axes |-> FALSE]
    /\ current_position = [a \in Axes |-> 0]
    /\ ser_in = [a \in Axes |-> <<>>]
    /\ held = [a \in Axes |-> <<>>]
    /\ response_queue = [a \in Axes |-> <<>>]
    /\ pending = [a \in Axes |-> 0]
    /\ spurious = [a \in Axes |-> 0]
    /\ hardware = [a \in Axes |-> <<0>>]
    /\ th = [t \in {"worker"} |-> IdleThread]
    /\ scan_lock = "free"
    /\ opsLeft = 0
    /\ plan = SquarePlan
    /\ ScanIdle
    /\ LinkIdle

NextAcq ==
    \/ GetTimeAxis
    \/ AcquireSpectrum

SpecAcq == InitAcq /\ [][NextAcq]_vars

(***************************************************************************)
(* Properties of the acquisition calls, checked under SpecAcq.             *)
(***************************************************************************)
\* the last call met one of the three failures
CallFailed ==
    \/ ~acq.connects
    \/ ~acq.arrives
    \/ (Len(acq.data[1]) * float64_bytes + acq.data[2]) % float64_bytes # 0

\* C26: a call that could not connect, got no data in time or got a number
\* of bytes that is no multiple of 8 returns failure and no waveform, and a
\* get_time_axis call that failed has left time_axis as it was.
C26_AcquisitionFailures ==
    (acq.fn # "none" /\ CallFailed)
        => /\ ~acq.ok
           /\ acq.value = <<>>
           /\ acq.fn = "get_time_axis" => time_axis = acq.axis_before

\* get_time_axis has failed on 12 bytes (one sample and 4 stray bytes) with
\* a time axis stored by an earlier call
C26_Witness ==
    /\ acq.fn = "get_time_axis"
    /\ acq.connects
    /\ acq.arrives
    /\ acq.data = <<<<5>>, 4>>
    /\ ~acq.ok
    /\ time_axis # <<>>

(***************************************************************************)
(* The ScanThread objects of a session.  start_scan makes a new ScanThread *)
(* and starts it, stop_scan sets the stopped flag of the latest one, and a *)
(* thread runs until it has emitted scan_completed.  A thread is:          *)
(*   pc       "running" from start() until scan_completed is emitted,      *)
(*            "ended" until its notification reaches scan_complete,        *)
(*            "delivered" after that                                       *)
(*   stopped  ScanThread.stopped                                           *)
(*   left     the path points it has not passed yet                        *)
(* self.scan_thread is the last thread of the sequence.                    *)
(***************************************************************************)
\* start_scan, lines 755-788, as StartScan, whatever the threads started
\* before are doing
ThreadStart ==
    /\ Len(threads) < MaxScans
    /\ ~scanning
    /\ \E save_path \in {"", "data"}, fetched \in FetchOutcomes :
         LET both_connected == connected["X"] /\ connected["Y"]
             tries_fetch == both_connected /\ save_path # "" /\ time_axis = <<>>
             axis_after == IF tries_fetch THEN fetched ELSE time_axis
             refusal == StartRefusal(both_connected, save_path, axis_after # <<>>)
         IN  IF refusal # ""
             THEN /\ start_warning' = refusal
                  /\ UNCHANGED <<scanning, time_axis, threads>>
             ELSE /\ time_axis' = axis_after
                  /\ scanning' = TRUE
                  /\ threads' = Append(threads,
                                       [pc |-> "running", stopped |-> FALSE,
                                        left |-> TotalPoints(plan)])
                  /\ UNCHANGED start_warning
    /\ UNCHANGED <<axisVars, th, scan_lock, opsLeft, plan, stopped, run, scan_data,
                   notes, save_result, images, rec_images, linkVars, acq, paused>>

\* stop_scan, lines 790-794
ThreadStopRequest ==
    /\ threads' = IF threads = <<>> THEN threads
                  ELSE [threads EXCEPT ![Len(threads)].stopped = TRUE]
    /\ scanning' = FALSE
    /\ UNCHANGED <<axisVars, th, scan_lock, opsLeft, time_axis, plan, stopped, run,
                   scan_data, notes, save_result, images, start_warning,
                   rec_images, linkVars, acq, paused>>

\* run, lines 164-196: the flag is not set at the head of a point, and the
\* point is passed
ThreadPoint(i) ==
    /\ threads[i].pc = "running"
    /\ threads[i].left > 0
    /\ ~StopRequested(threads[i].stopped)
    /\ threads' = [threads EXCEPT ![i].left = @ - 1]
    /\ UNCHANGED <<axisVars, th, scan_lock, opsLeft, scanVars, linkVars, acq, paused>>

\* run, lines 164-166: the flag is set at the head of a point
ThreadStopped(i) ==
    /\ threads[i].pc = "running"
    /\ threads[i].left > 0
    /\ StopRequested(threads[i].stopped)
    /\ threads' = [threads EXCEPT ![i].pc = "ended"]
    /\ UNCHANGED <<axisVars, th, scan_lock, opsLeft, scanVars, linkVars, acq, paused>>

\* run, lines 198-202: every point has been passed
ThreadFinished(i) ==
    /\ threads[i].pc = "running"
    /\ threads[i].left = 0
    /\ threads' = [threads EXCEPT ![i].pc = "ended"]
    /\ UNCHANGED <<axisVars, th, scan_lock, opsLeft, scanVars, linkVars, acq, paused>>

\* scan_complete, lines 796-800, for the notification of thread i
ThreadDelivered(i) ==
    /\ threads[i].pc = "ended"
    /\ threads' = [threads EXCEPT ![i].pc = "delivered"]
    /\ scanning' = FALSE
    /\ UNCHANGED <<axisVars, th, scan_lock, opsLeft, time_axis, plan, stopped, run,
                   scan_data, notes, save_result, images, start_warning,
                   rec_images, linkVars, acq, paused>>

(***************************************************************************)
(* SpecThreads: start_scan and stop_scan called in any order, at most      *)
(* MaxScans scans started.                                                 *)
(***************************************************************************)
InitThreads ==
    /\ connected \in [Axes -> BOOLEAN]
    /\ current_position = [a \in Axes |-> 0]
    /\ ser_in = [a \in Axes |-> <<>>]
    /\ held = [a \in Axes |-> <<>>]
    /\ response_queue = [a \in Axes |-> <<>>]
    /\ pending = [a \in Axes |-> 0]
    /\ spurious = [a \in Axes |-> 0]
    /\ hardware = [a \in Axes |-> <<0>>]
    /\ th = [t \in {"scan"} |-> IdleThread]
    /\ scan_lock = "free"
    /\ opsLeft = 0
    /\ plan \in Plans
    /\ ScanIdle
    /\ LinkIdle

NextThreads ==
    \/ ThreadStart
    \/ ThreadStopRequest
    \/ \E i \in 1..Len(threads) : ThreadPoint(i)
    \/ \E i \in 1..Len(threads) : ThreadStopped(i)
    \/ \E i \in 1..Len(threads) : ThreadFinished(i)
    \/ \E i \in 1..Len(threads) : ThreadDelivered(i)

SpecThreads == InitThreads /\ [][NextThreads]_vars

(***************************************************************************)
(* Properties of the scan threads, checked under SpecThreads.              *)
(***************************************************************************)
\* the threads that are executing run
Executing == {i \in 1..Len(threads) : threads[i].pc = "running"}

\* C28: at most one ScanThread is executing at any time: a thread that is
\* started is executing at once, so none is started while an earlier one
\* is executing.
C28_OneScanThread == Cardinality(Executing) <= 1

(***************************************************************************)
(* SpecSilent: one scan on links that are completely silent: the devices   *)
(* answer no command, so that the response queues stay empty and every     *)
(* wait_for_response runs into its timeout.  The scan thread, once         *)
(* started, keeps running (its loops sleep and go on, and the timeout of   *)
(* a wait elapses): weak fairness on its steps.  The operator may press    *)
(* Stop at any moment, or never.                                           *)
(***************************************************************************)
InitSilent ==
    /\ connected = [a \in Axes |-> TRUE]
    /\ current_position = [a \in Axes |-> 0]
    /\ ser_in = [a \in Axes |-> <<>>]
    /\ held = [a \in Axes |-> <<>>]
    /\ response_queue = [a \in Axes |-> <<>>]
    /\ pending = [a \in Axes |-> 0]
    /\ spurious = [a \in Axes |-> 0]
    /\ hardware = [a \in Axes |-> <<0>>]
    /\ th = [t \in {"scan"} |-> IdleThread]
    /\ scan_lock = "free"
    /\ opsLeft = 0
    /\ plan \in Plans \cup {[LinePlan EXCEPT !.center_x = 2]}
    /\ ScanIdle
    /\ LinkIdle

\* the steps of the scan thread on a silent link
SilentThreadStep ==
    \/ RunSetup /\ UNCHANGED <<linkVars, callVars>>
    \/ RunStop /\ UNCHANGED <<linkVars, callVars>>
    \/ RunMove /\ UNCHANGED <<linkVars, callVars>>
    \/ RunMoveFailed /\ UNCHANGED <<linkVars, callVars>>
    \/ RunSettle /\ UNCHANGED <<linkVars, callVars>>
    \/ RunAcquire /\ UNCHANGED <<linkVars, callVars>>
    \/ RunAcquireFails /\ UNCHANGED <<linkVars, callVars>>
    \/ RunFinish /\ UNCHANGED <<linkVars, callVars>>
    \/ MoveToPositionLock("scan") /\ UNCHANGED <<scanVars, linkVars, callVars>>
    \/ LegXReturn("scan") /\ UNCHANGED <<scanVars, linkVars, callVars>>
    \/ LegYReturn("scan") /\ UNCHANGED <<scanVars, linkVars, callVars>>
    \/ MoveToPositionReturn("scan") /\ UNCHANGED <<scanVars, linkVars, callVars>>
    \/ MoveMotorEntry("scan") /\ UNCHANGED <<scanVars, linkVars, callVars>>
    \/ SendEntry("scan") /\ UNCHANGED <<scanVars, linkVars, callVars>>
    \/ SendDrain("scan") /\ UNCHANGED <<scanVars, linkVars, callVars>>
    \/ SendWrite("scan") /\ UNCHANGED <<scanVars, linkVars, callVars>>
    \/ WaitTimeout("scan") /\ UNCHANGED <<scanVars, linkVars, callVars>>

NextSilent ==
    \/ StartScan /\ UNCHANGED <<linkVars, callVars>>
    \/ StopScan /\ UNCHANGED <<linkVars, callVars>>
    \/ ScanComplete /\ UNCHANGED <<linkVars, callVars>>
    \/ SilentThreadStep

SpecSilent == InitSilent /\ [][NextSilent]_vars /\ WF_vars(SilentThreadStep)

(***************************************************************************)
(* Properties of a scan on silent links, checked under SpecSilent.         *)
(***************************************************************************)
\* C29: on a silent link no wait lasts forever, a move whose wait timed out
\* has failed, and a scan that was started reaches its completion
\* notification (Completed, Stopped or Failed).
C29_SilentScanEnds ==
    /\ [](th["scan"].pc = "sc_wait" => <>(th["scan"].pc # "sc_wait"))
    /\ []((th["scan"].pc \in {"mm_ret", "done"} /\ th["scan"].timedOut)
             => ~th["scan"].ok)
    /\ (run.pc = "setup") ~> (run.pc = "ended")

\* a scan in which the move of every path point timed out has ended, and
\* ended in Completed
C29_Witness ==
    /\ run.pc = "ended"
    /\ run.failed_moves = TotalPoints(plan)
    /\ Outcome.a
    /\ pending["X"] = TotalPoints(plan)

(***************************************************************************)
(* SpecPause: the scan of SpecScan, with ScanThread.pause and              *)
(* ScanThread.resume called on the thread at any moment after it was       *)
(* created.  The scan thread, the devices, the listeners and the delivery  *)
(* of the completion signal keep running: weak fairness on every step but  *)
(* the operator's Start and Stop and the two calls.                        *)
(***************************************************************************)
\* as Pause, with the stop flag set as well
Pause_Stops ==
    /\ run.pc # "none"
    /\ paused' = TRUE
    /\ stopped' = TRUE
    /\ UNCHANGED <<axisVars, th, scan_lock, opsLeft, scanning, time_axis, plan,
                   run, scan_data, notes, save_result, images, start_warning,
                   rec_images, linkVars, acq, threads>>

\* ScanThread.pause, lines 228-229
Pause ==
    /\ run.pc # "none"
    /\ paused' = TRUE
    /\ UNCHANGED <<axisVars, th, scan_lock, opsLeft, scanVars, linkVars, acq, threads>>

\* ScanThread.resume, lines 231-232
Resume ==
    /\ run.pc # "none"
    /\ paused' = FALSE
    /\ UNCHANGED <<axisVars, th, scan_lock, opsLeft, scanVars, linkVars, acq, threads>>

NextPause ==
    \/ NextScan
    \/ Pause
    \/ Resume

\* a step of the scan thread, of a device, of a listener or of the
\* completion slot
ScanProgress == NextScan /\ run.pc # "none" /\ stopped' = stopped

SpecPause == InitScan /\ [][NextPause]_vars /\ WF_vars(ScanProgress)

(***************************************************************************)
(* Properties of pause and resume, checked under SpecPause.                *)
(***************************************************************************)
\* everything but the paused flag
ScanView ==
    <<axisVars, th, scan_lock, opsLeft, scanVars, linkVars, acq, threads>>

\* C31: pause and resume change nothing but the paused flag, so that a run
\* with them, looked at without the flag, is step for step a run of the scan
\* without them (the same moves, samples and notifications), and the run
\* goes on to its end however long the flag stays set.
C31_PauseHasNoEffect ==
    /\ [][NextScan]_ScanView
    /\ (run.pc = "setup") ~> Ended
    /\ (paused /\ run.pc = "check") ~> (run.pc # "check")

\* a scan has collected every point of its plan and ended in Completed with
\* the paused flag set
C31_Witness ==
    /\ paused
    /\ run.pc = "ended"
    /\ Outcome.a
    /\ run.collected_points = TotalPoints(plan)

====
